---- MODULE Spec2Model ----
(***************************************************************************)
(* A model of the README generator: the bounded tree walker and the        *)
(* derived statistics of GitHubAnalyzer, and the completion client of      *)
(* ReadmeGenerator.  Python strings are sequences of one-character         *)
(* strings, so that lower(), `in`, Path.suffix and splitlines() are        *)
(* computed character by character.                                        *)
(***************************************************************************)
EXTENDS Integers, Sequences, FiniteSets, TLC

(***************************************************************************)
(* str                                                                     *)
(***************************************************************************)
UpperChars == <<"A", "B", "C", "D", "E", "F", "G", "H", "I", "J", "K", "L", "M", "N", "O", "P", "Q", "R", "S", "T", "U", "V", "W", "X", "Y", "Z">>

LowerChars == <<"a", "b", "c", "d", "e", "f", "g", "h", "i", "j", "k", "l", "m", "n", "o", "p", "q", "r", "s", "t", "u", "v", "w", "x", "y", "z">>

\* the lower-case letter of every upper-case letter
LowerTable == [c \in {UpperChars[i] : i \in 1..Len(UpperChars)} |->
                 LowerChars[CHOOSE i \in 1..Len(UpperChars) : UpperChars[i] = c]]

\* str.lower() on one character
LowerChar(c) == IF c \in DOMAIN LowerTable THEN LowerTable[c] ELSE c

\* str.lower()
lower(s) == [i \in 1..Len(s) |-> LowerChar(s[i])]

\* the Python expression `sub in s` on two strings
str_in(sub, s) ==
    \E i \in 0..(Len(s) - Len(sub)) : SubSeq(s, i + 1, i + Len(sub)) = sub

\* str.startswith
startswith(s, prefix) ==
    Len(prefix) <= Len(s) /\ SubSeq(s, 1, Len(prefix)) = prefix

\* str.rfind("."), 1-based, 0 when there is no dot
rfind_dot(s) ==
    IF \E i \in 1..Len(s) : s[i] = "."
    THEN CHOOSE i \in 1..Len(s) : s[i] = "." /\ \A j \in (i + 1)..Len(s) : s[j] # "."
    ELSE 0

\* Path(name).suffix: the last dot and what follows it, unless the dot is the
\* first or the last character of the name
suffix(name) ==
    LET i == rfind_dot(name)
    IN  IF 1 < i /\ i < Len(name) THEN SubSeq(name, i, Len(name)) ELSE << >>

\* len(s.splitlines()): "\n", "\r" and "\r\n" each end a line, and a last
\* line without a terminator counts
splitlines_len(s) ==
    LET ends == {i \in 1..Len(s) :
                    \/ s[i] = "\n"
                    \/ s[i] = "\r" /\ ~(i < Len(s) /\ s[i + 1] = "\n")}
        tail == IF Len(s) > 0 /\ s[Len(s)] \notin {"\n", "\r"} THEN 1 ELSE 0
    IN  Cardinality(ends) + tail

\* s[:n]
str_prefix(s, n) == SubSeq(s, 1, IF n < Len(s) THEN n ELSE Len(s))

\* str.strip(): white space removed at both ends
WhiteSpace == {" ", "\t", "\n", "\r"}

RECURSIVE lstrip(_)
lstrip(s) == IF s # << >> /\ s[1] \in WhiteSpace THEN lstrip(Tail(s)) ELSE s

RECURSIVE rstrip(_)
rstrip(s) ==
    IF s # << >> /\ s[Len(s)] \in WhiteSpace THEN rstrip(SubSeq(s, 1, Len(s) - 1)) ELSE s

strip(s) == rstrip(lstrip(s))

\* str.replace(old, new): the occurrences of old from left to right, none overlapping
RECURSIVE str_replace(_, _, _)
str_replace(s, old, new) ==
    LET found == {i \in 1..(Len(s) - Len(old) + 1) : SubSeq(s, i, i + Len(old) - 1) = old}
    IN  IF found = {} THEN s
        ELSE LET i == CHOOSE i \in found : \A j \in found : i <= j
             IN  SubSeq(s, 1, i - 1) \o new
                    \o str_replace(SubSeq(s, i + Len(old), Len(s)), old, new)

\* str.split("\n")
RECURSIVE split_lines(_)
split_lines(s) ==
    IF \E i \in 1..Len(s) : s[i] = "\n"
    THEN LET i == CHOOSE i \in 1..Len(s) : s[i] = "\n" /\ \A j \in 1..(i - 1) : s[j] # "\n"
         IN  <<SubSeq(s, 1, i - 1)>> \o split_lines(SubSeq(s, i + 1, Len(s)))
    ELSE <<s>>

\* sep.join(parts)
RECURSIVE str_join(_, _)
str_join(sep, parts) ==
    IF parts = << >> THEN << >>
    ELSE IF Len(parts) = 1 THEN parts[1]
         ELSE parts[1] \o sep \o str_join(sep, Tail(parts))

\* list.insert(i, x), i counted from 0
list_insert(l, i, x) ==
    IF i >= Len(l) THEN Append(l, x)
    ELSE SubSeq(l, 1, i) \o <<x>> \o SubSeq(l, i + 1, Len(l))

(***************************************************************************)
(* Config                                                                  *)
(***************************************************************************)
supported_extensions ==
    { <<".", "p", "y">>, <<".", "j", "s">>, <<".", "t", "s">>, <<".", "j", "s", "x">>, <<".", "t", "s", "x">>, <<".", "j", "a", "v", "a">>, <<".", "c", "p", "p">>,
      <<".", "c">>, <<".", "c", "s">>, <<".", "r", "b">>, <<".", "g", "o">>, <<".", "r", "u", "s", "t">>, <<".", "r", "s">>, <<".", "p", "h", "p">>,
      <<".", "s", "w", "i", "f", "t">>, <<".", "k", "t">>, <<".", "s", "c", "a", "l", "a">>, <<".", "m", "d">>, <<".", "t", "x", "t">>, <<".", "y", "a", "m", "l">>,
      <<".", "y", "m", "l">>, <<".", "j", "s", "o", "n">>, <<".", "t", "o", "m", "l">>, <<".", "c", "f", "g">>, <<".", "i", "n", "i">>, <<".", "d", "o", "c", "k", "e", "r", "f", "i", "l", "e">>,
      <<"D", "o", "c", "k", "e", "r", "f", "i", "l", "e">>, <<"M", "a", "k", "e", "f", "i", "l", "e">>, <<".", "s", "h">>, <<".", "b", "a", "t">> }

(***************************************************************************)
(* FileData                                                                *)
(***************************************************************************)
FileData(path, name, extension, size, content) ==
    [path |-> path, name |-> name, extension |-> extension,
     size |-> size, content |-> content]

(***************************************************************************)
(* GitHubAnalyzer._analyze_languages                                       *)
(***************************************************************************)
language_map ==
    (<<".", "p", "y">> :> "Python") @@ (<<".", "j", "s">> :> "JavaScript") @@
    (<<".", "t", "s">> :> "TypeScript") @@ (<<".", "j", "s", "x">> :> "React") @@
    (<<".", "t", "s", "x">> :> "React TypeScript") @@ (<<".", "j", "a", "v", "a">> :> "Java") @@
    (<<".", "c", "p", "p">> :> "C++") @@ (<<".", "c">> :> "C") @@ (<<".", "c", "s">> :> "C#") @@
    (<<".", "r", "b">> :> "Ruby") @@ (<<".", "g", "o">> :> "Go") @@ (<<".", "r", "s">> :> "Rust") @@
    (<<".", "p", "h", "p">> :> "PHP") @@ (<<".", "s", "w", "i", "f", "t">> :> "Swift") @@ (<<".", "k", "t">> :> "Kotlin") @@
    (<<".", "s", "c", "a", "l", "a">> :> "Scala")

\* dict.get(key, default)
dict_get(d, key, default) == IF key \in DOMAIN d THEN d[key] ELSE default

\* d[key] = value
dict_set(d, key, value) ==
    [k \in DOMAIN d \cup {key} |-> IF k = key THEN value ELSE d[k]]

\* a slip: the lines counted as the number of "\\n" characters
file_lines_by_newlines(file_data) ==
    Cardinality({i \in 1..Len(file_data.content) : file_data.content[i] = "\\n"})

\* the number of lines one file adds to its language
file_lines(file_data) ==
    IF file_data.content # << >> THEN splitlines_len(file_data.content) ELSE 0

\* the loop over the files, from file i on
RECURSIVE count_languages(_, _, _, _)
count_languages(files, i, language_counts, total_lines) ==
    IF i > Len(files)
    THEN [language_counts |-> language_counts, total_lines |-> total_lines]
    ELSE IF files[i].extension \in DOMAIN language_map
         THEN LET language == language_map[files[i].extension]
                  lines == file_lines(files[i])
              IN  count_languages(files, i + 1,
                      dict_set(language_counts, language,
                               dict_get(language_counts, language, 0) + lines),
                      total_lines + lines)
         ELSE count_languages(files, i + 1, language_counts, total_lines)

\* (lines / total_lines) * 100, kept as the exact fraction num / den
percentage(lines, total_lines) == [num |-> lines * 100, den |-> total_lines]

_analyze_languages(files) ==
    LET counted == count_languages(files, 1, << >>, 0)
        language_percentages ==
            IF counted.total_lines > 0
            THEN [language \in DOMAIN counted.language_counts |->
                     percentage(counted.language_counts[language], counted.total_lines)]
            ELSE << >>
    IN  [languages |-> language_percentages, total_lines |-> counted.total_lines]

(***************************************************************************)
(* GitHubAnalyzer._detect_project_type                                     *)
(***************************************************************************)
file_names_of(files) == {lower(files[i].name) : i \in 1..Len(files)}

file_extensions_of(files) == {files[i].extension : i \in 1..Len(files)}

\* any(marker in f.content.lower() for f in files if f.content)
any_content_has(files, marker) ==
    \E i \in 1..Len(files) :
        files[i].content # << >> /\ str_in(marker, lower(files[i].content))

\* a slip: React read from the content of the files instead of the extensions
node_project_type_by_content(files) ==
    IF any_content_has(files, <<"r", "e", "a", "c", "t">>)
    THEN "React Application"
    ELSE IF \E ext \in file_extensions_of(files) : str_in(<<".", "v", "u", "e">>, ext)
         THEN "Vue.js Application"
         ELSE "Node.js Application"

node_project_type(files) ==
    LET file_extensions == file_extensions_of(files)
    IN  IF \E ext \in file_extensions : str_in(<<".", "j", "s", "x">>, ext) \/ str_in(<<".", "t", "s", "x">>, ext)
        THEN "React Application"
        ELSE IF \E ext \in file_extensions : str_in(<<".", "v", "u", "e">>, ext)
             THEN "Vue.js Application"
             ELSE "Node.js Application"

\* a slip: the FastAPI marker tried before the Flask marker
python_project_type_fastapi_first(files) ==
    IF <<"m", "a", "n", "a", "g", "e", ".", "p", "y">> \in file_names_of(files)
    THEN "Django Application"
    ELSE IF any_content_has(files, <<"f", "a", "s", "t", "a", "p", "i">>)
         THEN "FastAPI Application"
         ELSE IF any_content_has(files, <<"f", "l", "a", "s", "k">>)
              THEN "Flask Application"
              ELSE "Python Project"

python_project_type(files) ==
    IF <<"m", "a", "n", "a", "g", "e", ".", "p", "y">> \in file_names_of(files)
    THEN "Django Application"
    ELSE IF any_content_has(files, <<"f", "l", "a", "s", "k">>)
         THEN "Flask Application"
         ELSE IF any_content_has(files, <<"f", "a", "s", "t", "a", "p", "i">>)
              THEN "FastAPI Application"
              ELSE "Python Project"

\* the manifests after the Python one
other_project_type(files) ==
    LET file_names == file_names_of(files)
    IN  IF <<"p", "o", "m", ".", "x", "m", "l">> \in file_names \/ <<"b", "u", "i", "l", "d", ".", "g", "r", "a", "d", "l", "e">> \in file_names
        THEN "Java Project"
        ELSE IF <<"c", "a", "r", "g", "o", ".", "t", "o", "m", "l">> \in file_names
        THEN "Rust Project"
        ELSE IF <<"g", "o", ".", "m", "o", "d">> \in file_names
        THEN "Go Project"
        ELSE IF <<"g", "e", "m", "f", "i", "l", "e">> \in file_names
        THEN "Ruby Project"
        ELSE "General Project"

\* a slip: the Python manifest tried before the Node manifest
_detect_project_type_python_first(files) ==
    LET file_names == file_names_of(files)
    IN  IF <<"r", "e", "q", "u", "i", "r", "e", "m", "e", "n", "t", "s", ".", "t", "x", "t">> \in file_names \/ <<"p", "y", "p", "r", "o", "j", "e", "c", "t", ".", "t", "o", "m", "l">> \in file_names
        THEN python_project_type(files)
        ELSE IF <<"p", "a", "c", "k", "a", "g", "e", ".", "j", "s", "o", "n">> \in file_names
        THEN node_project_type(files)
        ELSE other_project_type(files)

_detect_project_type(files) ==
    LET file_names == file_names_of(files)
    IN  IF <<"p", "a", "c", "k", "a", "g", "e", ".", "j", "s", "o", "n">> \in file_names
        THEN node_project_type(files)
        ELSE IF <<"r", "e", "q", "u", "i", "r", "e", "m", "e", "n", "t", "s", ".", "t", "x", "t">> \in file_names \/ <<"p", "y", "p", "r", "o", "j", "e", "c", "t", ".", "t", "o", "m", "l">> \in file_names
        THEN python_project_type(files)
        ELSE other_project_type(files)

(***************************************************************************)
(* Optional values: None is the empty sequence, a value v is <<v>>.        *)
(***************************************************************************)
None == << >>

Some(v) == <<v>>

(***************************************************************************)
(* State                                                                   *)
(***************************************************************************)
VARIABLES
    config,          \* the Config of the run
    repository,      \* which repository the GitHub API serves
    pc,              \* where the run is
    session,         \* the components that hold an open ClientSession
    stack,           \* the calls of _analyze_directory_structure, innermost last
    call,            \* the API call in progress, or the one that just returned
    requests,        \* every HTTP request sent so far, with its answer
    faults,          \* how many requests were not answered by a sound 200
    repo_info,       \* None, or Some(the repository information received)
    escaped,         \* "", or the exception that left analyze_repository or generate_readme
    reached,         \* the paths of the entries the walker's loop has taken up
    files,           \* the List[FileData] of the walk, handed to the statistics
    language_stats,  \* None, or Some(LanguageStats)
    project_type,    \* "" until detected
    repo_data,       \* None, or Some(RepositoryData)
    readme,          \* None, or Some(text)
    repo_url,        \* the repository URL given on the command line
    url_valid,       \* None, or Some(what validate_github_url said of it)
    owner_repo,      \* what extract_repo_info made of it: None, or Some(<<owner, repo>>)
    code_samples     \* None, or Some(the code samples of the prompt)

\* the command line argument and what the helpers of utils.py make of it
url_vars == <<repo_url, url_valid, owner_repo>>

vars == <<url_vars, code_samples, config, repository, pc, session, stack, call, requests,
          faults, repo_info, escaped, reached, files, language_stats, project_type,
          repo_data, readme>>

\* the variables of the run that the statistics on their own leave alone
run_vars == <<url_vars, code_samples, config, repository, pc, session, stack, call,
              requests, faults, repo_info, escaped, reached, repo_data, readme>>

\* Config(): the fields the run reads, at their defaults
max_file_size == 100000

max_files == 50

max_retries == 3

retry_delay == 1

max_tokens == 2000

model_name == "openai/gpt-4o"

default_config ==
    [max_file_size |-> max_file_size, max_files |-> max_files, max_retries |-> max_retries,
     retry_delay |-> retry_delay, max_tokens |-> max_tokens, model_name |-> model_name,
     include_badges |-> TRUE]

\* the bounds of the runs explored: max_files is set from 1 to MaxFilesBound,
\* max_retries to 1 or to MaxRetriesBound, and at most MaxFaults requests of a
\* run are not answered 200
MaxFilesBound == 2

MaxRetriesBound == 3

MaxFaults == 2

\* no API call in progress
no_call == [kind |-> "none", path |-> << >>, level |-> 0, attempt |-> 0, slept |-> << >>,
            returned |-> FALSE, raised |-> "", result |-> None]

(***************************************************************************)
(* utils.validate_github_url and utils.extract_repo_info, with the parts   *)
(* of urllib.parse.urlparse they rest on                                   *)
(***************************************************************************)
\* str.lstrip(chars), str.rstrip(chars), str.strip(chars)
RECURSIVE lstrip_chars(_, _)
lstrip_chars(s, chars) ==
    IF s # << >> /\ s[1] \in chars THEN lstrip_chars(Tail(s), chars) ELSE s

RECURSIVE rstrip_chars(_, _)
rstrip_chars(s, chars) ==
    IF s # << >> /\ s[Len(s)] \in chars
    THEN rstrip_chars(SubSeq(s, 1, Len(s) - 1), chars) ELSE s

strip_chars(s, chars) == rstrip_chars(lstrip_chars(s, chars), chars)

\* the first position of s with a character of chars, Len(s) + 1 without one
find_any(s, chars) ==
    IF \E i \in 1..Len(s) : s[i] \in chars
    THEN CHOOSE i \in 1..Len(s) : s[i] \in chars /\ \A j \in 1..(i - 1) : s[j] \notin chars
    ELSE Len(s) + 1

\* str.split(sep) for a separator of one character
RECURSIVE str_split(_, _)
str_split(s, sep) ==
    LET i == find_any(s, {sep})
    IN  IF i > Len(s) THEN <<s>>
        ELSE <<SubSeq(s, 1, i - 1)>> \o str_split(SubSeq(s, i + 1, Len(s)), sep)

Digits == {"0", "1", "2", "3", "4", "5", "6", "7", "8", "9"}

\* the ASCII letters
Letters == {UpperChars[i] : i \in 1..Len(UpperChars)} \cup {LowerChars[i] : i \in 1..Len(LowerChars)}

\* urllib.parse.scheme_chars
scheme_chars == Letters \cup Digits \cup {"+", "-", "."}

\* urlparse(url) for a url without ";", brackets and inner white space: the
\* scheme before the first ":", the netloc after "//" up to "/", "?" or "#",
\* and the path up to "?" or "#"
urlparse(url) ==
    LET colon == find_any(url, {":"})
        has_scheme == /\ colon > 1
                      /\ colon <= Len(url)
                      /\ url[1] \in Letters
                      /\ \A i \in 1..(colon - 1) : url[i] \in scheme_chars
        scheme == IF has_scheme THEN lower(SubSeq(url, 1, colon - 1)) ELSE << >>
        rest == IF has_scheme THEN SubSeq(url, colon + 1, Len(url)) ELSE url
        has_netloc == startswith(rest, <<"/", "/">>)
        after == IF has_netloc THEN SubSeq(rest, 3, Len(rest)) ELSE rest
        delim == IF has_netloc THEN find_any(after, {"/", "?", "#"}) ELSE 1
        netloc == SubSeq(after, 1, delim - 1)
        tail == SubSeq(after, delim, Len(after))
    IN  [scheme |-> scheme, netloc |-> netloc,
         path |-> SubSeq(tail, 1, find_any(tail, {"?", "#"}) - 1)]

\* the characters of [\w\-\.]
name_chars == Letters \cup Digits \cup {"_", "-", "."}

\* github_pattern.match: ^https?://github\.com/[\w\-\.]+/[\w\-\.]+/?$
github_pattern_match(s) ==
    \E prefix \in { <<"h", "t", "t", "p", "s", ":", "/", "/", "g", "i", "t", "h", "u", "b", ".", "c", "o", "m", "/">>, <<"h", "t", "t", "p", ":", "/", "/", "g", "i", "t", "h", "u", "b", ".", "c", "o", "m", "/">> } :
        /\ startswith(s, prefix)
        /\ LET parts == str_split(SubSeq(s, Len(prefix) + 1, Len(s)), "/")
           IN  /\ Len(parts) \in {2, 3}
               /\ Len(parts) = 3 => parts[3] = << >>
               /\ \A k \in 1..2 :
                     /\ parts[k] # << >>
                     /\ \A i \in 1..Len(parts[k]) : parts[k][i] \in name_chars

validate_github_url(url) ==
    IF url = << >> THEN FALSE
    ELSE github_pattern_match(rstrip_chars(strip(url), {"/"}))

\* a slip: any host will do
netloc_accepted_always(netloc) == TRUE

\* parsed.netloc != "github.com" gives None
netloc_accepted(netloc) == netloc = <<"g", "i", "t", "h", "u", "b", ".", "c", "o", "m">>

extract_repo_info(url) ==
    LET parsed == urlparse(rstrip_chars(strip(url), {"/"}))
        path_parts == str_split(strip_chars(parsed.path, {"/"}), "/")
    IN  IF ~netloc_accepted(parsed.netloc) THEN None
        ELSE IF Len(path_parts) >= 2 THEN Some(<<path_parts[1], path_parts[2]>>)
        ELSE None

\* the URL of the runs of the pipeline
RepoUrl == <<"h", "t", "t", "p", "s", ":", "/", "/", "g", "i", "t", "h", "u", "b", ".", "c", "o", "m", "/", "o", "/", "r", "e", "p", "o">>

(***************************************************************************)
(* The statistics on their own: every file set over a fixed collection of  *)
(* files, in listing order.                                                *)
(***************************************************************************)
\* a FileData as the walker builds it from an entry's name and content
file_of(name, content) == FileData(name, name, lower(suffix(name)), Len(content), content)

StatFiles ==
    << file_of(<<"p", "a", "c", "k", "a", "g", "e", ".", "j", "s", "o", "n">>, <<"{", "\"", "R", "e", "a", "c", "t", "\"", ":", "1", "}">>),
       file_of(<<"A", "p", "p", ".", "j", "s", "x">>, <<"x", "\n", "\n", "y">>),
       file_of(<<"c", ".", "v", "u", "e">>, <<"v">>),
       file_of(<<"r", "e", "q", "u", "i", "r", "e", "m", "e", "n", "t", "s", ".", "t", "x", "t">>, <<"f", "l", "a", "s", "k", "\n">>),
       file_of(<<"p", "y", "p", "r", "o", "j", "e", "c", "t", ".", "t", "o", "m", "l">>, <<"[", "x", "]">>),
       file_of(<<"m", "a", "n", "a", "g", "e", ".", "p", "y">>, << >>),
       file_of(<<"m", "a", "i", "n", ".", "p", "y">>, <<"i", "m", "p", "o", "r", "t", " ", "o", "s", "\n", "i", "m", "p", "o", "r", "t", " ", "s", "y", "s", "\n">>),
       file_of(<<"a", "p", "i", ".", "p", "y">>, <<"F", "a", "s", "t", "A", "P", "I", "(", ")">>),
       file_of(<<"p", "o", "m", ".", "x", "m", "l">>, << >>),
       file_of(<<"b", "u", "i", "l", "d", ".", "g", "r", "a", "d", "l", "e">>, << >>),
       file_of(<<"C", "a", "r", "g", "o", ".", "t", "o", "m", "l">>, << >>),
       file_of(<<"g", "o", ".", "m", "o", "d">>, << >>),
       file_of(<<"G", "e", "m", "f", "i", "l", "e">>, << >>),
       file_of(<<"l", "i", "b", ".", "r", "s">>, <<"a", "\r", "\n", "b">>),
       file_of(<<"n", "o", "t", "e", "s", ".", "t", "x", "t">>, <<"F", "l", "a", "s", "k">>) >>

\* the files of StatFiles at the positions in S, in order
RECURSIVE pick_files(_, _)
pick_files(S, i) ==
    IF i > Len(StatFiles) THEN << >>
    ELSE IF i \in S THEN <<StatFiles[i]>> \o pick_files(S, i + 1)
         ELSE pick_files(S, i + 1)

StatInit ==
    /\ files \in {pick_files(S, 1) : S \in SUBSET (1..Len(StatFiles))}
    /\ language_stats = None
    /\ project_type = ""
    /\ config = default_config
    /\ repository = 1
    /\ repo_url = RepoUrl
    /\ url_valid = Some(validate_github_url(RepoUrl))
    /\ owner_repo = None
    /\ code_samples = None
    /\ pc = "statistics"
    /\ session = {}
    /\ stack = << >>
    /\ call = no_call
    /\ requests = << >>
    /\ faults = 0
    /\ repo_info = None
    /\ escaped = ""
    /\ reached = {}
    /\ repo_data = None
    /\ readme = None

AnalyzeLanguages ==
    /\ pc = "statistics"
    /\ language_stats = None
    /\ language_stats' = Some(_analyze_languages(files))
    /\ UNCHANGED <<files, project_type, run_vars>>

DetectProjectType ==
    /\ pc = "statistics"
    /\ project_type = ""
    /\ project_type' = _detect_project_type(files)
    /\ UNCHANGED <<files, language_stats, run_vars>>

StatNext == AnalyzeLanguages \/ DetectProjectType

SpecStats == StatInit /\ [][StatNext]_vars

(***************************************************************************)
(* The repositories the GitHub API serves.  An entry of a directory        *)
(* listing has a path, a name, a type and a size; content is what the      *)
(* contents API answers for the path.                                      *)
(***************************************************************************)
entry(path, name, type, size, content) ==
    [path |-> path, name |-> name, type |-> type, size |-> size, content |-> content]

\* a file next to a directory that holds two more
CountRepository ==
    (<< >> :> << entry(<<"a", ".", "p", "y">>, <<"a", ".", "p", "y">>, "file", 4, <<"a", "=", "1", "\n">>),
                 entry(<<"s", "r", "c">>, <<"s", "r", "c">>, "dir", 0, << >>),
                 entry(<<"z", ".", "p", "y">>, <<"z", ".", "p", "y">>, "file", 4, <<"z", "=", "1", "\n">>) >>)
    @@ (<<"s", "r", "c">> :> << entry(<<"s", "r", "c", "/", "b", ".", "p", "y">>, <<"b", ".", "p", "y">>, "file", 4, <<"b", "=", "1", "\n">>),
                     entry(<<"s", "r", "c", "/", "c", ".", "p", "y">>, <<"c", ".", "p", "y">>, "file", 4, <<"c", "=", "1", "\n">>) >>)

\* directories nested down to level 4
DeepRepository ==
    (<< >> :> << entry(<<"d", "1">>, <<"d", "1">>, "dir", 0, << >>) >>)
    @@ (<<"d", "1">> :> << entry(<<"d", "1", "/", "d", "2">>, <<"d", "2">>, "dir", 0, << >>),
                    entry(<<"d", "1", "/", "f", "1", ".", "p", "y">>, <<"f", "1", ".", "p", "y">>, "file", 2, <<"1", "\n">>) >>)
    @@ (<<"d", "1", "/", "d", "2">> :> << entry(<<"d", "1", "/", "d", "2", "/", "d", "3">>, <<"d", "3">>, "dir", 0, << >>) >>)
    @@ (<<"d", "1", "/", "d", "2", "/", "d", "3">> :> << entry(<<"d", "1", "/", "d", "2", "/", "d", "3", "/", "d", "4">>, <<"d", "4">>, "dir", 0, << >>),
                          entry(<<"d", "1", "/", "d", "2", "/", "d", "3", "/", "f", "3", ".", "p", "y">>, <<"f", "3", ".", "p", "y">>, "file", 2, <<"3", "\n">>) >>)
    @@ (<<"d", "1", "/", "d", "2", "/", "d", "3", "/", "d", "4">> :> << entry(<<"d", "1", "/", "d", "2", "/", "d", "3", "/", "d", "4", "/", "f", "4", ".", "p", "y">>, <<"f", "4", ".", "p", "y">>, "file", 2, <<"4", "\n">>) >>)

\* entries that the filters tell apart
FilterRepository ==
    (<< >> :> << entry(<<"R", "E", "A", "D", "M", "E">>, <<"R", "E", "A", "D", "M", "E">>, "file", 6, <<"r", "e", "a", "d", "m", "e">>),
                 entry(<<"A", "p", "p", ".", "P", "Y">>, <<"A", "p", "p", ".", "P", "Y">>, "file", 100000, <<"a", "p", "p", "\n">>),
                 entry(<<"D", "o", "c", "k", "e", "r", "f", "i", "l", "e", ".", "d", "e", "v">>, <<"D", "o", "c", "k", "e", "r", "f", "i", "l", "e", ".", "d", "e", "v">>, "file", 4, <<"F", "R", "O", "M">>),
                 entry(<<"b", "i", "g", ".", "p", "y">>, <<"b", "i", "g", ".", "p", "y">>, "file", 100001, <<"b", "i", "g">>),
                 entry(<<"e", "m", "p", "t", "y">>, <<"e", "m", "p", "t", "y">>, "dir", 0, << >>),
                 entry(<<"d", "o", "c", "s">>, <<"d", "o", "c", "s">>, "dir", 0, << >>) >>)
    @@ (<<"e", "m", "p", "t", "y">> :> << >>)
    @@ (<<"d", "o", "c", "s">> :> << entry(<<"d", "o", "c", "s", "/", "L", "I", "C", "E", "N", "S", "E">>, <<"L", "I", "C", "E", "N", "S", "E">>, "file", 3, <<"M", "I", "T">>),
                      entry(<<"d", "o", "c", "s", "/", "l", "i", "n", "k", ".", "j", "s">>, <<"l", "i", "n", "k", ".", "j", "s">>, "symlink", 5, << >>) >>)

Repositories == <<CountRepository, DeepRepository, FilterRepository>>

\* every entry of a repository
entries_of(repo) == UNION {{repo[d][i] : i \in 1..Len(repo[d])} : d \in DOMAIN repo}

\* the entries of each repository, and each entry by its path
RepositoryEntries == [r \in 1..Len(Repositories) |-> entries_of(Repositories[r])]

RepositoryPaths ==
    [r \in 1..Len(Repositories) |->
        [path \in {e.path : e \in RepositoryEntries[r]} |->
            CHOOSE e \in RepositoryEntries[r] : e.path = path]]

\* the answer of GET /repos/{owner}/{repo}
repo_info_of(n) ==
    [name |-> <<"r", "e", "p", "o">>, full_name |-> <<"o", "/", "r", "e", "p", "o">>, description |-> "",
     html_url |-> "https://github.com/o/repo", clone_url |-> "https://github.com/o/repo.git",
     language |-> <<"P", "y", "t", "h", "o", "n">>, stargazers_count |-> n, forks_count |-> 0,
     open_issues_count |-> 0, created_at |-> "", updated_at |-> "",
     has_wiki |-> FALSE, has_issues |-> TRUE, has_projects |-> FALSE]

(***************************************************************************)
(* GitHubAnalyzer._get_github_api_data                                     *)
(***************************************************************************)
\* aiohttp.ClientError raised by the request, in the place of a status: a
\* connection failure, or a timeout of the socket
ClientError == -1

\* asyncio.TimeoutError raised by the request, in the place of a status: the
\* total timeout of the session ran out; it is no aiohttp.ClientError
TimeoutError == -2

GithubAnswers == {200, 404, 403, 500, ClientError, TimeoutError}

\* the exceptions that `except Exception` handles; CancelledError is none
ExceptionClasses == {"TimeoutError", "KeyError", "AttributeError"}

\* a new call of _get_github_api_data
api_call(kind, path, level) ==
    [kind |-> kind, path |-> path, level |-> level, attempt |-> 0, slept |-> << >>,
     returned |-> FALSE, raised |-> "", result |-> None]

\* the content field of the contents API: the text of the file in base64
b64encode(text) == [base64 |-> "valid", bytes |-> "utf-8", text |-> text]

\* the sound JSON body of a 200 answer
api_body(c) ==
    CASE c.kind = "info" -> repo_info_of(repository)
      [] c.kind = "list" ->
            IF c.path \in DOMAIN Repositories[repository]
            THEN Repositories[repository][c.path] ELSE << >>
      [] c.kind = "content" ->
            [RepositoryPaths[repository][c.path] EXCEPT !.content = b64encode(@)]

\* the JSON bodies a 200 answer may have: the sound one; a repository
\* information without its name, a listing whose entry has no path, a content
\* that is no base64 or no UTF-8
api_bodies(c) ==
    {api_body(c)} \cup
    CASE c.kind = "info" -> {[message |-> "Moved Permanently"]}
      [] c.kind = "list" -> {<<[name |-> <<"x">>]>>}
      [] c.kind = "content" ->
            {[api_body(c) EXCEPT !.content.base64 = "invalid"],
             [api_body(c) EXCEPT !.content.bytes = "latin-1"]}

\* the records of the calls in progress, innermost last
accepted_so_far == 
    LET RECURSIVE total(_)
        total(n) == IF n = 0 THEN 0 ELSE total(n - 1) + Len(stack[n].files)
    IN  total(Len(stack))

\* the entry of the request log for one pass of a retry loop: the request,
\* its answer, whether that is a 200 with a sound body, the message content
\* of a completion (none here), and the waits of the pass
request_sent(c, status, is_sound, payload, after) ==
    [kind |-> c.kind, path |-> c.path, level |-> c.level, attempt |-> c.attempt,
     status |-> status, sound |-> is_sound, accepted |-> accepted_so_far,
     payload |-> payload, content |-> None,
     slept |-> SubSeq(after.slept, Len(c.slept) + 1, Len(after.slept))]

\* asyncio.sleep(retry_delay * (2**attempt)), and on to the next pass
backoff(c) ==
    [c EXCEPT !.slept = Append(@, config.retry_delay * (2 ^ c.attempt)), !.attempt = @ + 1]

\* a slip: status 404 handled like the other statuses, by another attempt
github_terminal_never(status) == FALSE

\* the statuses that end the call with None at once
github_terminal(status) == status = 404

\* a slip: the loop runs once more than max_retries
github_last_attempt_one_more(attempt) == attempt >= config.max_retries

\* the last pass of `for attempt in range(max_retries)`
github_last_attempt(attempt) == attempt >= config.max_retries - 1

\* what one attempt makes of its answer: the call returns, raises, or waits
\* and attempts again
github_attempt(c, status, body) ==
    IF status = TimeoutError
    THEN [c EXCEPT !.returned = TRUE, !.raised = "TimeoutError"]
    ELSE IF status = 200
    THEN [c EXCEPT !.returned = TRUE, !.result = Some(body)]
    ELSE IF github_terminal(status)
    THEN [c EXCEPT !.returned = TRUE, !.result = None]
    ELSE IF status = 403
    THEN IF ~github_last_attempt(c.attempt)
         THEN backoff(c)
         ELSE [c EXCEPT !.returned = TRUE, !.result = None]
    ELSE \* another status, or ClientError: on to the next pass, if there is one
         IF ~github_last_attempt(c.attempt)
         THEN backoff(c)
         ELSE [c EXCEPT !.returned = TRUE, !.result = None]

\* the answers to a request: a status or an exception, and the body of a 200
GithubOutcomes(c) ==
    {<<200, body>> : body \in api_bodies(c)}
        \cup {<<status, None>> : status \in GithubAnswers \ {200}}

\* a 200 with the sound body
sound(c, outcome) == outcome[1] = 200 /\ outcome[2] = api_body(c)

\* one pass of the retry loop with this outcome
GithubPass(outcome) ==
    LET after == github_attempt(call, outcome[1], outcome[2])
    IN  /\ requests' = Append(requests, request_sent(call, outcome[1],
                                                      sound(call, outcome), None, after))
        /\ faults' = IF sound(call, outcome) THEN faults ELSE faults + 1
        /\ call' = after

\* one pass of the retry loop: a request and its answer
GithubRequest ==
    /\ pc \in {"repo_info", "walk"}
    /\ call.kind \in {"info", "list", "content"}
    /\ ~call.returned
    /\ \E outcome \in GithubOutcomes(call) :
          /\ ~sound(call, outcome) => faults < MaxFaults
          /\ GithubPass(outcome)
    /\ UNCHANGED <<url_vars, code_samples, config, repository, pc, session, stack, repo_info, escaped, reached,
                   files, language_stats, project_type, repo_data, readme>>

(***************************************************************************)
(* GitHubAnalyzer._analyze_directory_structure                             *)
(***************************************************************************)
\* the default of the max_level parameter
max_level_default == 3

special_file_names == { <<"R", "E", "A", "D", "M", "E", ".", "m", "d">>, <<"L", "I", "C", "E", "N", "S", "E">>, <<"D", "o", "c", "k", "e", "r", "f", "i", "l", "e">>, <<"M", "a", "k", "e", "f", "i", "l", "e">> }

\* a slip: the walk stops one level later
too_deep_off_by_one(level, max_level) == level > max_level + 1

\* the test at the entry of the function
too_deep(level, max_level) == level > max_level

\* a slip: the allow-list of names forgotten
name_accepted_by_extension_only(file_name, file_extension) ==
    file_extension \in supported_extensions

\* the test on the extension and the name of a file
name_accepted(file_name, file_extension) ==
    \/ file_extension \in supported_extensions
    \/ file_name \in special_file_names

\* a slip: the size never looked at
size_accepted_always(file_size) == TRUE

\* the test on the size of a file
size_accepted(file_size) == file_size <= config.max_file_size

\* one call of the function: its arguments and its locals
frame(path, level, max_level) ==
    [path |-> path, level |-> level, max_level |-> max_level,
     contents |-> << >>, idx |-> 0, files |-> << >>, awaiting |-> "contents"]

top == stack[Len(stack)]

callers == SubSeq(stack, 1, Len(stack) - 1)

\* readme_file / license_file: the content of the first file whose name
\* starts with the prefix, letter case aside, else ""
first_content(fs, prefix) ==
    IF \E i \in 1..Len(fs) : startswith(lower(fs[i].name), prefix)
    THEN fs[CHOOSE i \in 1..Len(fs) :
               /\ startswith(lower(fs[i].name), prefix)
               /\ \A j \in 1..(i - 1) : ~startswith(lower(fs[j].name), prefix)].content
    ELSE << >>

RepositoryData(info, fs) ==
    [name |-> info.name, full_name |-> info.full_name,
     description |-> info.description, url |-> info.html_url,
     clone_url |-> info.clone_url, language |-> info.language,
     languages |-> _analyze_languages(fs), stars |-> info.stargazers_count,
     forks |-> info.forks_count, open_issues |-> info.open_issues_count,
     created_at |-> info.created_at, updated_at |-> info.updated_at,
     project_type |-> _detect_project_type(fs), files |-> fs,
     readme_content |-> first_content(fs, <<"r", "e", "a", "d", "m", "e">>),
     license_content |-> first_content(fs, <<"l", "i", "c", "e", "n", "s", "e">>),
     has_wiki |-> info.has_wiki, has_issues |-> info.has_issues,
     has_projects |-> info.has_projects]

\* a slip: the handler takes the errors of the transport only
analyze_handles_client_errors_only(exc) == exc = "ClientError"

\* `except Exception` of analyze_repository
analyze_handles(exc) == exc \in ExceptionClasses

\* a slip: the session is left to its owner
finally_close_left_out(who) == session

\* `finally`: the session is closed and forgotten
finally_close(who) == session \ {who}

\* an exception goes up from the walker or the snapshot: analyze_repository
\* returns None if it handles it, the session is closed either way
AnalysisRaises(exc) ==
    /\ stack' = << >>
    /\ call' = no_call
    /\ session' = finally_close("analyzer")
    /\ repo_data' = None
    /\ IF analyze_handles(exc)
       THEN pc' = "analyzed" /\ UNCHANGED escaped
       ELSE pc' = "done" /\ escaped' = exc
    /\ UNCHANGED <<files, language_stats, project_type>>

\* a slip: the records of the subdirectory take the place of the earlier ones
extend_overwrites(fs, subfiles) == subfiles

\* files.extend(subfiles)
extend(fs, subfiles) == fs \o subfiles

\* a call of the function returns subfiles to its caller: to the loop of the
\* call below it on the stack, or to analyze_repository, which goes on to the
\* statistics and the snapshot and closes the session
ReturnTo(below, subfiles) ==
    IF below = << >>
    THEN IF "name" \in DOMAIN repo_info[1]
         THEN /\ stack' = << >>
              /\ files' = subfiles
              /\ language_stats' = Some(_analyze_languages(subfiles))
              /\ project_type' = _detect_project_type(subfiles)
              /\ repo_data' = Some(RepositoryData(repo_info[1], subfiles))
              /\ session' = finally_close("analyzer")
              /\ call' = no_call
              /\ pc' = "analyzed"
              /\ UNCHANGED escaped
         ELSE AnalysisRaises("KeyError")
    ELSE /\ stack' = [below EXCEPT ![Len(below)].files = extend(@, subfiles),
                                    ![Len(below)].idx = @ + 1]
         /\ call' = no_call
         /\ UNCHANGED <<files, language_stats, project_type, repo_data, session, pc,
                        escaped>>

\* the function is called on a directory from the loop on top of `below`
CallWalker(below, path, level, max_level) ==
    IF too_deep(level, max_level)
    THEN ReturnTo(below, << >>)
    ELSE /\ stack' = Append(below, frame(path, level, max_level))
         /\ call' = api_call("list", path, level)
         /\ UNCHANGED <<files, language_stats, project_type, repo_data, session, pc,
                        escaped>>

\* the listing came back: nothing to walk, or the loop starts
ContentsReturned ==
    /\ pc = "walk"
    /\ call.kind = "list"
    /\ call.returned
    /\ IF call.raised # ""
       THEN AnalysisRaises(call.raised)
       ELSE LET contents == IF call.result = None THEN << >> ELSE call.result[1]
            IN  IF contents = << >>
                THEN ReturnTo(callers, << >>)
                ELSE /\ stack' = [stack EXCEPT ![Len(stack)].contents = contents,
                                               ![Len(stack)].idx = 1,
                                               ![Len(stack)].awaiting = "loop"]
                     /\ call' = no_call
                     /\ UNCHANGED <<files, language_stats, project_type, repo_data,
                                    session, pc, escaped>>
    /\ UNCHANGED <<url_vars, code_samples, config, repository, requests, faults, repo_info, reached, readme>>

\* one pass of the loop over the listing
LoopStep ==
    /\ pc = "walk"
    /\ call.kind = "none"
    /\ top.awaiting = "loop"
    /\ IF top.idx > Len(top.contents) \/ Len(top.files) >= config.max_files
       THEN /\ ReturnTo(callers, top.files)
            /\ UNCHANGED reached
       ELSE LET item == top.contents[top.idx]
            IN  IF "path" \notin DOMAIN item
                THEN /\ AnalysisRaises("KeyError")
                     /\ UNCHANGED reached
                ELSE LET file_extension == lower(suffix(item.name))
                     IN  /\ reached' = reached \cup {item.path}
                         /\ IF item.type = "dir"
                            THEN CallWalker(stack, item.path, top.level + 1, top.max_level)
                            ELSE IF /\ name_accepted(item.name, file_extension)
                                    /\ size_accepted(item.size)
                                 THEN /\ stack' = [stack EXCEPT
                                                      ![Len(stack)].awaiting = "content"]
                                      /\ call' = api_call("content", item.path, top.level)
                                      /\ UNCHANGED <<files, language_stats, project_type,
                                                     repo_data, session, pc, escaped>>
                                 ELSE /\ stack' = [stack EXCEPT ![Len(stack)].idx = @ + 1]
                                      /\ UNCHANGED <<call, files, language_stats,
                                                     project_type, repo_data, session, pc,
                                                     escaped>>
    /\ UNCHANGED <<url_vars, code_samples, config, repository, requests, faults, repo_info, readme>>

\* a slip: the bytes are decoded with errors replaced, so the text is kept
b64decode_utf8_lenient(content) == Some(content.text)

\* base64.b64decode(content).decode("utf-8"): None stands for the
\* ValueError or the UnicodeDecodeError that _get_file_content handles
b64decode_utf8(content) ==
    IF content.base64 = "valid" /\ content.bytes = "utf-8" THEN Some(content.text) ELSE None

\* _get_file_content on the answer of the contents API
decoded_content(result) ==
    IF result # None /\ result[1].type = "file" /\ result[1].content.text # << >>
    THEN b64decode_utf8(result[1].content)
    ELSE None

\* the content came back: the record is appended, the loop goes on
ContentReturned ==
    /\ pc = "walk"
    /\ call.kind = "content"
    /\ call.returned
    /\ IF call.raised # ""
       THEN AnalysisRaises(call.raised)
       ELSE /\ LET item == top.contents[top.idx]
                   content == decoded_content(call.result)
                   file_data == FileData(item.path, item.name, lower(suffix(item.name)),
                                         item.size,
                                         IF content = None THEN << >> ELSE content[1])
               IN  stack' = [stack EXCEPT ![Len(stack)].files = Append(@, file_data),
                                          ![Len(stack)].idx = @ + 1,
                                          ![Len(stack)].awaiting = "loop"]
            /\ call' = no_call
            /\ UNCHANGED <<pc, session, files, language_stats, project_type, repo_data,
                           escaped>>
    /\ UNCHANGED <<url_vars, code_samples, config, repository, requests, faults, repo_info, reached, readme>>

(***************************************************************************)
(* GitHubAnalyzer.analyze_repository                                       *)
(***************************************************************************)
\* the session is opened and the repository information asked for (main has
\* validated the URL, so _parse_github_url finds an owner and a name)
AnalyzeRepository ==
    /\ pc = "start"
    /\ session' = session \cup {"analyzer"}
    /\ call' = api_call("info", << >>, 0)
    /\ pc' = "repo_info"
    /\ UNCHANGED <<url_vars, code_samples, config, repository, stack, requests, faults, repo_info, escaped,
                   reached, files, language_stats, project_type, repo_data, readme>>

\* the repository information came back: no result without it, else the walk
RepoInfoReturned ==
    /\ pc = "repo_info"
    /\ call.kind = "info"
    /\ call.returned
    /\ IF call.raised # ""
       THEN AnalysisRaises(call.raised) /\ UNCHANGED repo_info
       ELSE IF call.result = None
       THEN /\ repo_data' = None
            /\ session' = finally_close("analyzer")
            /\ call' = no_call
            /\ pc' = "analyzed"
            /\ UNCHANGED <<stack, files, language_stats, project_type, repo_info, escaped>>
       ELSE /\ pc' = "walk"
            /\ repo_info' = call.result
            /\ stack' = <<frame(<< >>, 0, max_level_default)>>
            /\ call' = api_call("list", << >>, 0)
            /\ UNCHANGED <<files, language_stats, project_type, repo_data, session,
                           escaped>>
    /\ UNCHANGED <<url_vars, code_samples, config, repository, requests, faults, reached, readme>>

\* the run is cancelled while it waits for an answer: CancelledError goes up
\* through analyze_repository or generate_readme, whose `finally` closes the
\* session, and main ends without a result; the call stays as it was left
Cancel ==
    /\ pc \in {"repo_info", "walk", "generate"}
    /\ call.kind # "none"
    /\ ~call.returned
    /\ session' = finally_close(IF pc = "generate" THEN "generator" ELSE "analyzer")
    /\ stack' = << >>
    /\ escaped' = "CancelledError"
    /\ pc' = "done"
    /\ UNCHANGED <<url_vars, code_samples, config, repository, call, requests, faults, repo_info, reached, files,
                   language_stats, project_type, repo_data, readme>>

(***************************************************************************)
(* ReadmeGenerator._generate_badges and _post_process_readme               *)
(***************************************************************************)
_generate_badges(data) ==
    LET language_badge ==
            IF data.language # << >>
            THEN << <<"!", "[", "L", "a", "n", "g", "u", "a", "g", "e", "]", "(", "h", "t", "t", "p", "s", ":", "/", "/", "i", "m", "g", ".", "s", "h", "i", "e", "l", "d", "s", ".", "i", "o", "/", "b", "a", "d", "g", "e", "/", "L", "a", "n", "g", "u", "a", "g", "e", "-">>
                    \o data.language \o <<"-", "b", "l", "u", "e", ")">> >>
            ELSE << >>
        stars_badge ==
            IF data.stars > 0
            THEN << <<"!", "[", "S", "t", "a", "r", "s", "]", "(", "h", "t", "t", "p", "s", ":", "/", "/", "i", "m", "g", ".", "s", "h", "i", "e", "l", "d", "s", ".", "i", "o", "/", "g", "i", "t", "h", "u", "b", "/", "s", "t", "a", "r", "s", "/">>
                    \o data.full_name \o <<")">> >>
            ELSE << >>
        forks_badge ==
            IF data.forks > 0
            THEN << <<"!", "[", "F", "o", "r", "k", "s", "]", "(", "h", "t", "t", "p", "s", ":", "/", "/", "i", "m", "g", ".", "s", "h", "i", "e", "l", "d", "s", ".", "i", "o", "/", "g", "i", "t", "h", "u", "b", "/", "f", "o", "r", "k", "s", "/">>
                    \o data.full_name \o <<")">> >>
            ELSE << >>
        issues_badge ==
            IF data.has_issues
            THEN << <<"!", "[", "I", "s", "s", "u", "e", "s", "]", "(", "h", "t", "t", "p", "s", ":", "/", "/", "i", "m", "g", ".", "s", "h", "i", "e", "l", "d", "s", ".", "i", "o", "/", "g", "i", "t", "h", "u", "b", "/", "i", "s", "s", "u", "e", "s", "/">>
                    \o data.full_name \o <<")">> >>
            ELSE << >>
        license_badge ==
            IF data.license_content # << >>
            THEN << <<"!", "[", "L", "i", "c", "e", "n", "s", "e", "]", "(", "h", "t", "t", "p", "s", ":", "/", "/", "i", "m", "g", ".", "s", "h", "i", "e", "l", "d", "s", ".", "i", "o", "/", "g", "i", "t", "h", "u", "b", "/", "l", "i", "c", "e", "n", "s", "e", "/">>
                    \o data.full_name \o <<")">> >>
            ELSE << >>
        last_commit_badge ==
            << <<"!", "[", "L", "a", "s", "t", " ", "C", "o", "m", "m", "i", "t", "]", "(", "h", "t", "t", "p", "s", ":", "/", "/", "i", "m", "g", ".", "s", "h", "i", "e", "l", "d", "s", ".", "i", "o", "/", "g", "i", "t", "h", "u", "b", "/", "l", "a", "s", "t", "-", "c", "o", "m", "m", "i", "t", "/">>
               \o data.full_name \o <<")">> >>
    IN  str_join(<<" ">>, language_badge \o stars_badge \o forks_badge \o issues_badge
                          \o license_badge \o last_commit_badge)

\* how much of the text is searched for image markup
badge_window == 500

\* the heading is put in front of a text that does not start with one
with_title(content, data) ==
    IF ~startswith(content, <<"#", " ">>)
    THEN <<"#", " ">> \o data.name \o <<"\n", "\n">> \o content
    ELSE content

\* the badges are put after the first heading line of a text without image markup
with_badges(content, data, include_badges) ==
    IF include_badges /\ ~str_in(<<"!", "[">>, str_prefix(content, badge_window))
    THEN LET badges == _generate_badges(data)
         IN  IF badges # << >>
             THEN LET lines == split_lines(content)
                      titled == {i \in 1..Len(lines) : startswith(lines[i], <<"#", " ">>)}
                      title_line ==
                          IF titled = {} THEN 0
                          ELSE (CHOOSE i \in titled : \A j \in titled : i <= j) - 1
                  IN  str_join(<<"\n">>,
                          list_insert(
                              list_insert(
                                  list_insert(lines, title_line + 1, << >>),
                                  title_line + 2, badges),
                              title_line + 3, << >>))
             ELSE content
    ELSE content

_post_process_readme(content, data, include_badges) ==
    str_replace(with_badges(with_title(content, data), data, include_badges),
                <<"\n", "\n", "\n">>, <<"\n", "\n">>)

(***************************************************************************)
(* ReadmeGenerator._call_openrouter_api and generate_readme                *)
(***************************************************************************)
CompletionAnswers == {200, 401, 429, 500, ClientError, TimeoutError}

\* the texts the model may answer with
CompletionTexts == { <<" ", "I", "n", "t", "r", "o", "\n", "\n", "\n", "\n", "#", " ", "U", "s", "a", "g", "e", "\n">>, <<" ", "\n">>, << >> }

\* the JSON bodies of a 200 answer: one choice with a text, no choice, or a
\* choice without its message
CompletionBodies ==
    {[choices |-> <<[message |-> [content |-> text]]>>] : text \in CompletionTexts}
        \cup {[choices |-> << >>], [choices |-> <<[finish_reason |-> "error"]>>]}

\* _create_analysis_prompt: the values of the snapshot that the prompt names
\* first, without the text around them
_create_analysis_prompt(data) ==
    [name |-> data.name, description |-> data.description,
     project_type |-> data.project_type]

\* the content of the system message
system_content ==
    "You are an expert technical writer specializing in creating comprehensive, professional README.md files for software projects. You analyze code repositories and generate clear, well-structured documentation that helps users understand, install, and use the software effectively."

\* the JSON body of the request; 0.3 and 0.9 as fractions
payload_of(prompt) ==
    [model |-> config.model_name,
     messages |-> <<[role |-> "system", content |-> system_content],
                    [role |-> "user", content |-> prompt]>>,
     max_tokens |-> 4000,
     temperature |-> [num |-> 3, den |-> 10],
     top_p |-> [num |-> 9, den |-> 10]]

\* a slip: status 401 handled like the other statuses, by another attempt
completion_terminal_never(status) == FALSE

\* the statuses that end the call with None at once
completion_terminal(status) == status = 401

\* the last pass of `for attempt in range(max_retries)`
completion_last_attempt(attempt) == attempt >= config.max_retries - 1

\* status 429: wait and `continue`, unless this is the last pass
rate_limited(c) ==
    IF ~completion_last_attempt(c.attempt)
    THEN backoff(c)
    ELSE [c EXCEPT !.returned = TRUE, !.result = None]

\* what one attempt makes of its answer: the call returns, raises, or waits
\* and attempts again
completion_attempt(c, status, body) ==
    IF status = TimeoutError
    THEN [c EXCEPT !.returned = TRUE, !.raised = "TimeoutError"]
    ELSE IF status = 200
    THEN IF body.choices # << >>
         THEN IF "message" \in DOMAIN body.choices[1]
              THEN [c EXCEPT !.returned = TRUE,
                             !.result = Some(strip(body.choices[1].message.content))]
              ELSE [c EXCEPT !.returned = TRUE, !.raised = "KeyError"]
         ELSE [c EXCEPT !.returned = TRUE, !.result = None]
    ELSE IF completion_terminal(status)
    THEN [c EXCEPT !.returned = TRUE, !.result = None]
    ELSE IF status = 429
    THEN rate_limited(c)
    ELSE \* another status, or ClientError: on to the next pass, if there is one
         IF ~completion_last_attempt(c.attempt)
         THEN backoff(c)
         ELSE [c EXCEPT !.returned = TRUE, !.result = None]

\* the answers to a request: a status or an exception, and the body of a 200
CompletionOutcomes ==
    {<<200, body>> : body \in CompletionBodies}
        \cup {<<status, [choices |-> << >>]>> : status \in CompletionAnswers \ {200}}

\* a 200 with a text
sound_completion(outcome) ==
    /\ outcome[1] = 200
    /\ outcome[2].choices # << >>
    /\ "message" \in DOMAIN outcome[2].choices[1]

\* result["choices"][0]["message"]["content"] of a 200 with a text
message_content(outcome) ==
    IF sound_completion(outcome) THEN Some(outcome[2].choices[1].message.content)
    ELSE None

\* one pass of the retry loop with this outcome
CompletionPass(outcome) ==
    LET after == completion_attempt(call, outcome[1], outcome[2])
        payload == payload_of(_create_analysis_prompt(repo_data[1]))
        sent == request_sent(call, outcome[1], sound_completion(outcome),
                             Some(payload), after)
    IN  /\ requests' = Append(requests,
                              [sent EXCEPT !.content = message_content(outcome)])
        /\ faults' = IF sound_completion(outcome) THEN faults ELSE faults + 1
        /\ call' = after

\* `except Exception` of generate_readme
generate_handles(exc) == exc \in ExceptionClasses

\* main goes on after the analysis: it stops without a snapshot, else
\* generate_readme opens a session and calls the completion API
GenerateReadme ==
    /\ pc = "analyzed"
    /\ IF repo_data = None
       THEN /\ pc' = "done"
            /\ UNCHANGED <<session, call>>
       ELSE /\ pc' = "generate"
            /\ session' = session \cup {"generator"}
            /\ call' = api_call("completion", << >>, 0)
    /\ UNCHANGED <<url_vars, code_samples, config, repository, stack, requests, faults, repo_info, escaped,
                   reached, files, language_stats, project_type, repo_data, readme>>

\* one pass of the retry loop: a request and its answer
CompletionRequest ==
    /\ pc = "generate"
    /\ call.kind = "completion"
    /\ ~call.returned
    /\ \E outcome \in CompletionOutcomes :
          /\ ~sound_completion(outcome) => faults < MaxFaults
          /\ CompletionPass(outcome)
    /\ UNCHANGED <<url_vars, code_samples, config, repository, pc, session, stack, repo_info, escaped, reached,
                   files, language_stats, project_type, repo_data, readme>>

\* a slip: `if readme_content is None`
not_readme_content_none_only(readme_content) == readme_content = None

\* `if not readme_content`: None, and the empty text
not_readme_content(readme_content) ==
    readme_content = None \/ readme_content[1] = << >>

\* the call came back: no result without a text or after an exception, else
\* the text post-processed; the session is closed either way
CompletionReturned ==
    /\ pc = "generate"
    /\ call.kind = "completion"
    /\ call.returned
    /\ readme' = IF call.raised # "" \/ not_readme_content(call.result)
                 THEN None
                 ELSE Some(_post_process_readme(call.result[1], repo_data[1],
                                                config.include_badges))
    /\ escaped' = IF call.raised # "" /\ ~generate_handles(call.raised)
                  THEN call.raised ELSE escaped
    /\ session' = finally_close("generator")
    /\ call' = no_call
    /\ pc' = "done"
    /\ UNCHANGED <<url_vars, code_samples, config, repository, stack, requests, faults, repo_info, reached, files,
                   language_stats, project_type, repo_data>>

(***************************************************************************)
(* The run                                                                 *)
(***************************************************************************)
Init ==
    /\ config \in [max_file_size : {max_file_size}, max_files : 1..MaxFilesBound,
                   max_retries : {1, MaxRetriesBound}, retry_delay : {retry_delay},
                   max_tokens : {max_tokens}, model_name : {model_name},
                   include_badges : {TRUE}]
    /\ repository \in 1..Len(Repositories)
    /\ repo_url = RepoUrl
    /\ url_valid = Some(validate_github_url(RepoUrl))
    /\ owner_repo = None
    /\ code_samples = None
    /\ pc = "start"
    /\ session = {}
    /\ stack = << >>
    /\ call = no_call
    /\ requests = << >>
    /\ faults = 0
    /\ repo_info = None
    /\ escaped = ""
    /\ reached = {}
    /\ files = << >>
    /\ language_stats = None
    /\ project_type = ""
    /\ repo_data = None
    /\ readme = None

Next ==
    \/ AnalyzeRepository
    \/ GithubRequest
    \/ RepoInfoReturned
    \/ ContentsReturned
    \/ LoopStep
    \/ ContentReturned
    \/ GenerateReadme
    \/ CompletionRequest
    \/ CompletionReturned
    \/ Cancel

Spec == Init /\ [][Next]_vars

(***************************************************************************)
(* One call of _get_github_api_data or of _call_openrouter_api on its own, *)
(* answered in every way.                                                  *)
(***************************************************************************)
RetryInit ==
    /\ config \in [max_file_size : {max_file_size}, max_files : {max_files},
                   max_retries : 1..MaxRetriesBound, retry_delay : {retry_delay},
                   max_tokens : {max_tokens, 2 * max_tokens}, model_name : {model_name},
                   include_badges : {TRUE}]
    /\ call \in {api_call(kind, << >>, 0) : kind \in {"info", "list", "completion"}}
    /\ session = IF call.kind = "completion" THEN {"generator"} ELSE {"analyzer"}
    /\ repository = 1
    /\ repo_url = RepoUrl
    /\ url_valid = Some(validate_github_url(RepoUrl))
    /\ owner_repo = None
    /\ code_samples = None
    /\ pc = "call"
    /\ stack = << >>
    /\ requests = << >>
    /\ faults = 0
    /\ repo_info = Some(repo_info_of(1))
    /\ escaped = ""
    /\ reached = {}
    /\ files = << >>
    /\ language_stats = None
    /\ project_type = ""
    /\ repo_data = Some(RepositoryData(repo_info_of(1), << >>))
    /\ readme = None

\* one pass of the retry loop of _get_github_api_data
GithubCallPass ==
    /\ pc = "call"
    /\ call.kind \in {"info", "list"}
    /\ ~call.returned
    /\ \E outcome \in GithubOutcomes(call) : GithubPass(outcome)
    /\ UNCHANGED <<url_vars, code_samples, config, repository, pc, session, stack, repo_info, escaped, reached,
                   files, language_stats, project_type, repo_data, readme>>

\* one pass of the retry loop of _call_openrouter_api
CompletionCallPass ==
    /\ pc = "call"
    /\ call.kind = "completion"
    /\ ~call.returned
    /\ \E outcome \in CompletionOutcomes : CompletionPass(outcome)
    /\ UNCHANGED <<url_vars, code_samples, config, repository, pc, session, stack, repo_info, escaped, reached,
                   files, language_stats, project_type, repo_data, readme>>

RetryNext == GithubCallPass \/ CompletionCallPass

SpecRetry == RetryInit /\ [][RetryNext]_vars

(***************************************************************************)
(* _post_process_readme on its own: on a text of the completion API, and   *)
(* once more on its own result.                                            *)
(***************************************************************************)
\* a heading line that fills the searched part of the text
LongTitle == <<"#", " ">> \o [i \in 1..badge_window |-> "x"]

\* texts as _call_openrouter_api returns them: stripped and not empty
PostTexts ==
    { <<"#", " ", "T", "\n", "\n", "b", "o", "d", "y">>,
      <<"#", " ", "T", "\n", "\n", "\n", "x">>,
      <<"I", "n", "t", "r", "o", "\n", "\n", "\n", "\n", "#", " ", "U", "s", "a", "g", "e">>,
      <<"t", "e", "x", "t", "\n", "\n", "\n", "\n", "\n", "m", "o", "r", "e">>,
      <<"#", "#", " ", "S", "u", "b", "\n", "t", "e", "x", "t">>,
      <<"#", " ", "A", "\n", "#", " ", "B">>,
      <<"!", "[", "l", "o", "g", "o", "]", "(", "u", ")", "\n", "#", " ", "T">>,
      <<"H", "e", "r", "e", " ", "i", "t", " ", "i", "s", ":", "\n", "#", " ", "T", "\n", "x">>,
      LongTitle \o <<"\n", "b", "o", "d", "y">> }

\* snapshots with all badges but the license, with the last-commit badge
\* alone, and with a license
PostData ==
    { RepositoryData(repo_info_of(1), << >>),
      RepositoryData([repo_info_of(0) EXCEPT !.language = << >>, !.has_issues = FALSE],
                     << >>),
      RepositoryData(repo_info_of(0), <<file_of(<<"L", "I", "C", "E", "N", "S", "E">>, <<"M", "I", "T">>)>>) }

PostInit ==
    /\ config \in [max_file_size : {max_file_size}, max_files : {max_files},
                   max_retries : {max_retries}, retry_delay : {retry_delay},
                   max_tokens : {max_tokens}, model_name : {model_name},
                   include_badges : BOOLEAN]
    /\ repo_data \in {Some(data) : data \in PostData}
    /\ call \in {[api_call("completion", << >>, 0) EXCEPT !.returned = TRUE,
                                                          !.result = Some(text)] :
                    text \in PostTexts}
    /\ pc = "post"
    /\ session = {"generator"}
    /\ repository = 1
    /\ repo_url = RepoUrl
    /\ url_valid = Some(validate_github_url(RepoUrl))
    /\ owner_repo = None
    /\ code_samples = None
    /\ stack = << >>
    /\ requests = << >>
    /\ faults = 0
    /\ repo_info = None
    /\ escaped = ""
    /\ reached = {}
    /\ files = << >>
    /\ language_stats = None
    /\ project_type = ""
    /\ readme = None

\* final_content = self._post_process_readme(readme_content, repo_data)
PostProcess ==
    /\ pc = "post"
    /\ readme' = Some(_post_process_readme(call.result[1], repo_data[1],
                                           config.include_badges))
    /\ pc' = "post_once"
    /\ UNCHANGED <<url_vars, code_samples, config, repository, session, stack, call, requests, faults, repo_info,
                   escaped, reached, files, language_stats, project_type, repo_data>>

\* the function on its own result, which takes the place of the text
PostProcessAgain ==
    /\ pc = "post_once"
    /\ call' = [call EXCEPT !.result = readme]
    /\ readme' = Some(_post_process_readme(readme[1], repo_data[1],
                                           config.include_badges))
    /\ pc' = "post_twice"
    /\ UNCHANGED <<url_vars, code_samples, config, repository, session, stack, requests, faults, repo_info,
                   escaped, reached, files, language_stats, project_type, repo_data>>

PostNext == PostProcess \/ PostProcessAgain

SpecPost == PostInit /\ [][PostNext]_vars

(***************************************************************************)
(* The helpers of utils.py on their own, on URLs of many shapes            *)
(***************************************************************************)
UrlSchemes == { <<"h", "t", "t", "p", "s", ":", "/", "/">>, <<"h", "t", "t", "p", ":", "/", "/">>, <<"f", "t", "p", ":", "/", "/">>, <<"H", "T", "T", "P", "S", ":", "/", "/">>, <<"/", "/">>, <<"h", "t", "t", "p", "s", ":">>, << >> }

UrlHosts ==
    { <<"g", "i", "t", "h", "u", "b", ".", "c", "o", "m">>, <<"g", "i", "t", "l", "a", "b", ".", "c", "o", "m">>, <<"w", "w", "w", ".", "g", "i", "t", "h", "u", "b", ".", "c", "o", "m">>, <<"g", "i", "t", "h", "u", "b", ".", "c", "o", "m", ":", "4", "4", "3">>, <<"G", "i", "t", "H", "u", "b", ".", "c", "o", "m">>,
      << >> }

UrlPaths ==
    { << >>, <<"/">>, <<"/", "o">>, <<"/", "o", "/">>, <<"/", "o", "/", "r">>, <<"/", "o", "/", "r", "/">>, <<"/", "o", "/", "r", "/", "/">>, <<"/", "o", "/", "r", "/", "t", "r", "e", "e", "/", "m", "a", "i", "n">>,
      <<"/", "o", "/", "/", "r">>, <<"/", "/", "o", "/", "r">>, <<"/", "o", "/", "r", "?", "t", "a", "b", "=", "a">>, <<"/", "o", "/", "r", "#", "x">>, <<"/", "o", "?", "a", "=", "/", "b">>, <<"/", "o", "/", "r", ".", "g", "i", "t">> }

\* white space around the argument
UrlPads == { << >>, <<" ">> }

UrlInputs ==
    {pad \o scheme \o host \o path \o pad :
        scheme \in UrlSchemes, host \in UrlHosts, path \in UrlPaths, pad \in UrlPads}

UrlInit ==
    /\ repo_url \in UrlInputs
    /\ url_valid = None
    /\ owner_repo = None
    /\ pc = "url"
    /\ code_samples = None
    /\ config = default_config
    /\ repository = 1
    /\ session = {}
    /\ stack = << >>
    /\ call = no_call
    /\ requests = << >>
    /\ faults = 0
    /\ repo_info = None
    /\ escaped = ""
    /\ reached = {}
    /\ files = << >>
    /\ language_stats = None
    /\ project_type = ""
    /\ repo_data = None
    /\ readme = None

ValidateGithubUrl ==
    /\ pc = "url"
    /\ url_valid' = Some(validate_github_url(repo_url))
    /\ pc' = "url_validated"
    /\ UNCHANGED <<repo_url, owner_repo, code_samples, config, repository, session, stack,
                   call, requests, faults, repo_info, escaped, reached, files,
                   language_stats, project_type, repo_data, readme>>

ExtractRepoInfo ==
    /\ pc = "url_validated"
    /\ owner_repo' = extract_repo_info(repo_url)
    /\ pc' = "url_extracted"
    /\ UNCHANGED <<repo_url, url_valid, code_samples, config, repository, session, stack,
                   call, requests, faults, repo_info, escaped, reached, files,
                   language_stats, project_type, repo_data, readme>>

UrlNext == ValidateGithubUrl \/ ExtractRepoInfo

SpecUrl == UrlInit /\ [][UrlNext]_vars

(***************************************************************************)
(* ReadmeGenerator._create_code_samples: the code-sample section of the    *)
(* prompt, on its own.                                                     *)
(***************************************************************************)
\* one character: the grave accent of a Markdown fence
BackTick == "grave"

Fence == <<BackTick, BackTick, BackTick>>

main_files ==
    << <<"m", "a", "i", "n", ".", "p", "y">>, <<"a", "p", "p", ".", "p", "y">>, <<"i", "n", "d", "e", "x", ".", "j", "s">>, <<"m", "a", "i", "n", ".", "j", "s">>, <<"s", "e", "r", "v", "e", "r", ".", "j", "s">>,
       <<"m", "a", "i", "n", ".", "j", "a", "v", "a">>, <<"M", "a", "i", "n", ".", "j", "a", "v", "a">>, <<"m", "a", "i", "n", ".", "g", "o">>, <<"l", "i", "b", ".", "r", "s">>, <<"m", "a", "i", "n", ".", "r", "s">> >>

\* content[:500] of a main file; len(content) < 1000 of a configuration file
excerpt_chars == 500

config_ceiling == 1000

lang_map ==
    (<<".", "p", "y">> :> <<"p", "y", "t", "h", "o", "n">>) @@ (<<".", "j", "s">> :> <<"j", "a", "v", "a", "s", "c", "r", "i", "p", "t">>) @@
    (<<".", "t", "s">> :> <<"t", "y", "p", "e", "s", "c", "r", "i", "p", "t">>) @@ (<<".", "j", "s", "x">> :> <<"j", "s", "x">>) @@
    (<<".", "t", "s", "x">> :> <<"t", "s", "x">>) @@ (<<".", "j", "a", "v", "a">> :> <<"j", "a", "v", "a">>) @@
    (<<".", "c", "p", "p">> :> <<"c", "p", "p">>) @@ (<<".", "c">> :> <<"c">>) @@ (<<".", "c", "s">> :> <<"c", "s", "h", "a", "r", "p">>) @@
    (<<".", "r", "b">> :> <<"r", "u", "b", "y">>) @@ (<<".", "g", "o">> :> <<"g", "o">>) @@ (<<".", "r", "s">> :> <<"r", "u", "s", "t">>) @@
    (<<".", "p", "h", "p">> :> <<"p", "h", "p">>) @@ (<<".", "s", "w", "i", "f", "t">> :> <<"s", "w", "i", "f", "t">>) @@
    (<<".", "k", "t">> :> <<"k", "o", "t", "l", "i", "n">>) @@ (<<".", "s", "c", "a", "l", "a">> :> <<"s", "c", "a", "l", "a">>) @@
    (<<".", "j", "s", "o", "n">> :> <<"j", "s", "o", "n">>) @@ (<<".", "y", "a", "m", "l">> :> <<"y", "a", "m", "l">>) @@
    (<<".", "y", "m", "l">> :> <<"y", "a", "m", "l">>) @@ (<<".", "t", "o", "m", "l">> :> <<"t", "o", "m", "l">>) @@
    (<<".", "x", "m", "l">> :> <<"x", "m", "l">>) @@ (<<".", "h", "t", "m", "l">> :> <<"h", "t", "m", "l">>) @@
    (<<".", "c", "s", "s">> :> <<"c", "s", "s">>) @@ (<<".", "s", "h">> :> <<"b", "a", "s", "h">>) @@
    (<<".", "b", "a", "t">> :> <<"b", "a", "t", "c", "h">>) @@ (<<".", "m", "d">> :> <<"m", "a", "r", "k", "d", "o", "w", "n">>)

_get_language_for_extension(extension) == dict_get(lang_map, lower(extension), << >>)

\* next((f for f in self.files if f.name.lower() == name.lower()), None)
get_file_by_name(fs, name) ==
    LET hits == {i \in 1..Len(fs) : lower(fs[i].name) = lower(name)}
    IN  IF hits = {} THEN None
        ELSE Some(fs[CHOOSE i \in hits : \A j \in hits : i <= j])

config_patterns ==
    { <<".", "j", "s", "o", "n">>, <<".", "y", "a", "m", "l">>, <<".", "y", "m", "l">>, <<".", "t", "o", "m", "l">>, <<".", "i", "n", "i">>, <<".", "c", "f", "g">>,
      <<"d", "o", "c", "k", "e", "r", "f", "i", "l", "e">>, <<"m", "a", "k", "e", "f", "i", "l", "e">>, <<".", "e", "n", "v">> }

is_config_file(file_data) ==
    \/ lower(file_data.extension) \in config_patterns
    \/ lower(file_data.name) \in {<<"d", "o", "c", "k", "e", "r", "f", "i", "l", "e">>, <<"m", "a", "k", "e", "f", "i", "l", "e">>}
    \/ startswith(lower(file_data.name), <<".", "e", "n", "v">>)

get_config_files(fs) == SelectSeq(fs, is_config_file)

\* f"### {name}\n```{lang}\n{text}\n```"
fenced(name, lang, text) ==
    <<"#", "#", "#", " ">> \o name \o <<"\n">> \o Fence \o lang \o <<"\n">> \o text \o <<"\n">> \o Fence

\* the first loop: the samples after the scan of main_files from its i-th name
RECURSIVE main_samples(_, _)
main_samples(fs, i) ==
    IF i > Len(main_files) THEN << >>
    ELSE LET file_data == get_file_by_name(fs, main_files[i])
         IN  IF file_data # None /\ file_data[1].content # << >>
             THEN << fenced(main_files[i],
                            _get_language_for_extension(file_data[1].extension),
                            str_prefix(file_data[1].content, excerpt_chars) \o <<".", ".", ".">>) >>
             ELSE main_samples(fs, i + 1)

\* the second loop, over config_files[:2]
config_sample(config_file) ==
    fenced(config_file.name, _get_language_for_extension(config_file.extension),
           config_file.content)

config_samples(fs) ==
    LET config_files == get_config_files(fs)
        first_two == SubSeq(config_files, 1, IF Len(config_files) < 2
                                             THEN Len(config_files) ELSE 2)
        kept == SelectSeq(first_two, LAMBDA f : f.content # << >> /\
                                                Len(f.content) < config_ceiling)
    IN  [i \in 1..Len(kept) |-> config_sample(kept[i])]

joined_samples(samples) ==
    IF samples # << >> THEN str_join(<<"\n", "\n">>, samples)
    ELSE <<"N", "o", " ", "s", "i", "g", "n", "i", "f", "i", "c", "a", "n", "t", " ", "c", "o", "d", "e", " ", "s", "a", "m", "p", "l", "e", "s", " ", "f", "o", "u", "n", "d", ".">>

_create_code_samples(data) ==
    joined_samples(main_samples(data.files, 1) \o config_samples(data.files))

\* FileData of a file at a path, as _analyze_directory_structure builds it
file_at(path, name, content) ==
    FileData(path, name, lower(suffix(name)), Len(content), content)

chars(n) == [i \in 1..n |-> "x"]

\* files of snapshots: main files with and without content, in two
\* directories, in capitals, of 500 characters and more; configuration
\* files below and at the ceiling
SampleFiles ==
    { file_at(<<"a", "/", "m", "a", "i", "n", ".", "p", "y">>, <<"m", "a", "i", "n", ".", "p", "y">>, << >>),
      file_at(<<"m", "a", "i", "n", ".", "p", "y">>, <<"m", "a", "i", "n", ".", "p", "y">>, <<"i", "m", "p", "o", "r", "t", " ", "o", "s", "\n", "i", "m", "p", "o", "r", "t", " ", "s", "y", "s", "\n">>),
      file_at(<<"a", "p", "p", ".", "p", "y">>, <<"a", "p", "p", ".", "p", "y">>, chars(excerpt_chars)),
      file_at(<<"i", "n", "d", "e", "x", ".", "j", "s">>, <<"i", "n", "d", "e", "x", ".", "j", "s">>, << >>),
      file_at(<<"M", "a", "i", "n", ".", "j", "a", "v", "a">>, <<"M", "a", "i", "n", ".", "j", "a", "v", "a">>, chars(excerpt_chars + 1)),
      file_at(<<"M", "A", "I", "N", ".", "G", "O">>, <<"M", "A", "I", "N", ".", "G", "O">>, <<"p", "a", "c", "k", "a", "g", "e", " ", "m", "a", "i", "n">>),
      file_at(<<"l", "i", "b", ".", "r", "s">>, <<"l", "i", "b", ".", "r", "s">>, <<"f", "n">>),
      file_at(<<"a", ".", "j", "s", "o", "n">>, <<"a", ".", "j", "s", "o", "n">>, <<"{", "}">>),
      file_at(<<"D", "o", "c", "k", "e", "r", "f", "i", "l", "e">>, <<"D", "o", "c", "k", "e", "r", "f", "i", "l", "e">>, chars(config_ceiling)),
      file_at(<<"b", ".", "t", "o", "m", "l">>, <<"b", ".", "t", "o", "m", "l">>, chars(config_ceiling - 1)) }

MaxSampleFiles == 3

RECURSIVE file_lists(_)
file_lists(n) ==
    IF n = 0 THEN {<< >>}
    ELSE LET shorter == file_lists(n - 1)
         IN  shorter \cup {Append(l, f) : l \in {s \in shorter : Len(s) = n - 1},
                                          f \in SampleFiles}

distinct_paths(fs) == \A i, j \in 1..Len(fs) : fs[i].path = fs[j].path => i = j

SampleInit ==
    /\ config = default_config
    /\ files \in {fs \in file_lists(MaxSampleFiles) : distinct_paths(fs)}
    /\ repo_data = Some(RepositoryData(repo_info_of(1), files))
    /\ call = no_call
    /\ pc = "samples"
    /\ session = {"generator"}
    /\ repository = 1
    /\ repo_url = RepoUrl
    /\ url_valid = Some(validate_github_url(RepoUrl))
    /\ owner_repo = None
    /\ code_samples = None
    /\ stack = << >>
    /\ requests = << >>
    /\ faults = 0
    /\ repo_info = None
    /\ escaped = ""
    /\ reached = {}
    /\ language_stats = None
    /\ project_type = ""
    /\ readme = None

\* code_samples = self._create_code_samples(repo_data)
CreateCodeSamples ==
    /\ pc = "samples"
    /\ code_samples' = Some(_create_code_samples(repo_data[1]))
    /\ pc' = "sampled"
    /\ UNCHANGED <<url_vars, config, repository, repo_data, call, session, stack,
                   requests, faults, repo_info, escaped, reached, files,
                   language_stats, project_type, readme>>

SampleNext == CreateCodeSamples

SpecSamples == SampleInit /\ [][SampleNext]_vars

(***************************************************************************)
(* Claims about _detect_project_type (SpecStats)                           *)
(***************************************************************************)
\* a file of that name is in the file set, letter case aside
HasName(name) == \E i \in 1..Len(files) : lower(files[i].name) = lower(name)

\* the content of some file holds the marker, letter case aside
HasMarker(marker) == \E i \in 1..Len(files) : str_in(marker, lower(files[i].content))

HasNode == HasName(<<"p", "a", "c", "k", "a", "g", "e", ".", "j", "s", "o", "n">>)

HasPython == HasName(<<"r", "e", "q", "u", "i", "r", "e", "m", "e", "n", "t", "s", ".", "t", "x", "t">>) \/ HasName(<<"p", "y", "p", "r", "o", "j", "e", "c", "t", ".", "t", "o", "m", "l">>)

HasJava == HasName(<<"p", "o", "m", ".", "x", "m", "l">>) \/ HasName(<<"b", "u", "i", "l", "d", ".", "g", "r", "a", "d", "l", "e">>)

HasRust == HasName(<<"C", "a", "r", "g", "o", ".", "t", "o", "m", "l">>)

HasGo == HasName(<<"g", "o", ".", "m", "o", "d">>)

HasRuby == HasName(<<"G", "e", "m", "f", "i", "l", "e">>)

NodeLabels == {"React Application", "Vue.js Application", "Node.js Application"}

PythonLabels ==
    {"Django Application", "Flask Application", "FastAPI Application", "Python Project"}

\* the manifest rules in their order: the names of the manifest, the labels it allows
ManifestNames ==
    << {lower(<<"p", "a", "c", "k", "a", "g", "e", ".", "j", "s", "o", "n">>)},
       {lower(<<"r", "e", "q", "u", "i", "r", "e", "m", "e", "n", "t", "s", ".", "t", "x", "t">>), lower(<<"p", "y", "p", "r", "o", "j", "e", "c", "t", ".", "t", "o", "m", "l">>)},
       {lower(<<"p", "o", "m", ".", "x", "m", "l">>), lower(<<"b", "u", "i", "l", "d", ".", "g", "r", "a", "d", "l", "e">>)},
       {lower(<<"C", "a", "r", "g", "o", ".", "t", "o", "m", "l">>)},
       {lower(<<"g", "o", ".", "m", "o", "d">>)},
       {lower(<<"G", "e", "m", "f", "i", "l", "e">>)} >>

ManifestLabels ==
    << NodeLabels, PythonLabels, {"Java Project"}, {"Rust Project"},
       {"Go Project"}, {"Ruby Project"} >>

\* C6: the project type is decided by the first manifest rule that matches, in
\* the order Node, Python, Java, Rust, Go, Ruby, whatever other manifests are
\* present (a Node and a Python manifest together give a Node label), and it is
\* "General Project" exactly when no manifest is present.
C6_FirstManifestWins ==
    project_type # "" =>
        LET names == {lower(files[i].name) : i \in 1..Len(files)}
            present == {r \in 1..Len(ManifestNames) : ManifestNames[r] \cap names # {}}
        IN  /\ \A r \in present :
                  (\A q \in present : r <= q) => project_type \in ManifestLabels[r]
            /\ (project_type = "General Project") <=> (present = {})

\* C6 witness: a Node and a Python manifest coexist and the type was detected
C6_Witness ==
    /\ HasNode /\ HasPython /\ HasRuby
    /\ project_type \in NodeLabels

\* C7 as stated: a package.json whose content mentions react gives
\* "React Application", with or without a .jsx or .tsx file.
C7_ReactFromManifestContent ==
    (/\ project_type # ""
     /\ \E i \in 1..Len(files) :
           /\ lower(files[i].name) = <<"p", "a", "c", "k", "a", "g", "e", ".", "j", "s", "o", "n">>
           /\ str_in(<<"r", "e", "a", "c", "t">>, lower(files[i].content)))
        => project_type = "React Application"

\* a file of the set has an extension holding .jsx or .tsx
HasReactExtension ==
    \E i \in 1..Len(files) :
        str_in(<<".", "j", "s", "x">>, files[i].extension) \/ str_in(<<".", "t", "s", "x">>, files[i].extension)

\* C7 amended: with a package.json present the type is "React Application"
\* exactly when some file of the set has a .jsx or .tsx extension; the content
\* of the manifest plays no part.
C7_ReactFromExtensions ==
    (project_type # "" /\ HasNode)
        => ((project_type = "React Application") <=> HasReactExtension)

\* C7 witness: a manifest that mentions react, a .jsx file, and the React label
C7_Witness ==
    /\ HasNode /\ HasMarker(<<"r", "e", "a", "c", "t">>) /\ HasReactExtension
    /\ project_type = "React Application"

\* C8: with a Python manifest and no Node manifest the type is Django when
\* manage.py is present, else Flask when some content holds "flask", else
\* FastAPI when some content holds "fastapi", else "Python Project".
C8_PythonChain ==
    (project_type # "" /\ HasPython /\ ~HasNode) =>
        project_type =
            IF HasName(<<"m", "a", "n", "a", "g", "e", ".", "p", "y">>) THEN "Django Application"
            ELSE IF HasMarker(<<"f", "l", "a", "s", "k">>) THEN "Flask Application"
            ELSE IF HasMarker(<<"f", "a", "s", "t", "a", "p", "i">>) THEN "FastAPI Application"
            ELSE "Python Project"

\* C8 witness: main.py and a requirements.txt naming flask give Flask
C8_Witness ==
    /\ Len(files) = 2
    /\ HasName(<<"m", "a", "i", "n", ".", "p", "y">>) /\ HasName(<<"r", "e", "q", "u", "i", "r", "e", "m", "e", "n", "t", "s", ".", "t", "x", "t">>)
    /\ HasMarker(<<"f", "l", "a", "s", "k">>)
    /\ project_type = "Flask Application"

(***************************************************************************)
(* Claims about _analyze_languages (SpecStats)                             *)
(***************************************************************************)
Recognized(i) == files[i].extension \in DOMAIN language_map

\* the lines of the first n files that are in the language table
RECURSIVE RecognizedLines(_)
RecognizedLines(n) ==
    IF n = 0 THEN 0
    ELSE RecognizedLines(n - 1)
         + (IF Recognized(n) THEN splitlines_len(files[n].content) ELSE 0)

\* the lines of the first n files that are of one language
RECURSIVE LanguageLines(_, _)
LanguageLines(language, n) ==
    IF n = 0 THEN 0
    ELSE LanguageLines(language, n - 1)
         + (IF Recognized(n) /\ language_map[files[n].extension] = language
            THEN splitlines_len(files[n].content) ELSE 0)

\* the sum of the numerators of the shares of the languages in L
RECURSIVE ShareSum(_, _)
ShareSum(shares, L) ==
    IF L = {} THEN 0
    ELSE LET l == CHOOSE l \in L : TRUE
         IN  shares[l].num + ShareSum(shares, L \ {l})

\* C9: total_lines is the sum of the line counts of the files whose extension
\* is in the language table; when it is positive every share is the language's
\* lines over total_lines times 100 and the shares sum to 100 within 0.1; when
\* no recognized file has content the mapping is empty and total_lines is 0;
\* nothing is ever divided by zero.
C9_LanguageShares ==
    language_stats # None =>
        LET stats == language_stats[1]
            shares == stats.languages
            total == stats.total_lines
        IN  /\ total = RecognizedLines(Len(files))
            /\ \A l \in DOMAIN shares : shares[l].den > 0 /\ shares[l].den = total
            /\ total > 0 =>
                  /\ DOMAIN shares =
                        {language_map[files[i].extension] :
                            i \in {j \in 1..Len(files) : Recognized(j)}}
                  /\ \A l \in DOMAIN shares :
                        shares[l].num * total
                            = LanguageLines(l, Len(files)) * 100 * shares[l].den
                  /\ 999 * total < 10 * ShareSum(shares, DOMAIN shares)
                  /\ 10 * ShareSum(shares, DOMAIN shares) < 1001 * total
            /\ (\A i \in 1..Len(files) : Recognized(i) => files[i].content = << >>)
                  => (shares = << >> /\ total = 0)

\* C9 witness: two languages share the lines, one file of the table is empty
C9_Witness ==
    /\ language_stats # None
    /\ language_stats[1].total_lines = 7
    /\ Cardinality(DOMAIN language_stats[1].languages) = 3
    /\ \E i \in 1..Len(files) : Recognized(i) /\ files[i].content = << >>

(***************************************************************************)
(* Claims about the walker (Spec)                                          *)
(***************************************************************************)
\* the walker has returned to analyze_repository
WalkReturned == repo_data # None

\* the entries of the repository served
Entries == RepositoryEntries[repository]

EntryAt(path) == RepositoryPaths[repository][path]

\* P holds of every record accepted so far: those of the calls in progress and
\* those returned
EveryRecord(P(_)) ==
    /\ \A i \in 1..Len(files) : P(files[i])
    /\ \A n \in 1..Len(stack) : \A i \in 1..Len(stack[n].files) : P(stack[n].files[i])

\* the nesting level of the directory that holds the path: the root is level 0
LevelOf(path) == Cardinality({i \in 1..Len(path) : path[i] = "/"})

\* the requests of the walk
WalkRequests == {i \in 1..Len(requests) : requests[i].kind \in {"list", "content"}}

\* C1: the walker returns at most max_files records.
C1_AtMostMaxFiles == WalkReturned => Len(files) <= config.max_files

\* C2: once max_files records are accepted in the whole walk, no listing and
\* no content is requested any more.
C2_ShortCircuit ==
    \A i \in WalkRequests : requests[i].accepted < config.max_files

\* C3: no directory below level max_level (3) is listed, and no record comes
\* from one.
C3_DepthBound ==
    /\ \A i \in WalkRequests : requests[i].level <= max_level_default
    /\ \A i \in WalkRequests :
          requests[i].kind = "list" => LevelOf(requests[i].path) < max_level_default
    /\ EveryRecord(LAMBDA f : LevelOf(f.path) <= max_level_default)

\* C3 witness: a directory of level 3 was listed, its subdirectory was taken
\* up by the loop and left alone, and its file is in the result
C3_Witness ==
    /\ WalkReturned
    /\ \E i \in WalkRequests : requests[i].kind = "list" /\ requests[i].level = 3
    /\ \E e \in Entries :
          e.type = "dir" /\ LevelOf(e.path) = 3 /\ e.path \in reached
    /\ \E i \in 1..Len(files) : LevelOf(files[i].path) = 3

\* the three conditions of an entry that may become a record
Acceptable(e) ==
    /\ e.type # "dir"
    /\ e.size <= config.max_file_size
    /\ \/ lower(suffix(e.name)) \in supported_extensions
       \/ e.name \in special_file_names

\* C4: every record is of an entry that is no directory, of a size within
\* max_file_size, and with a supported lower-cased extension or an allow-listed
\* name; the content of no other entry is requested.
C4_OnlyAcceptable ==
    /\ EveryRecord(LAMBDA f :
          /\ Acceptable(EntryAt(f.path))
          /\ f.size = EntryAt(f.path).size
          /\ f.extension = lower(suffix(EntryAt(f.path).name)))
    /\ \A i \in WalkRequests :
          requests[i].kind = "content" => Acceptable(EntryAt(requests[i].path))

\* C4 witness: the loop took up a file that is too large, one with an
\* unsupported extension and a directory, and a record with an upper-case
\* extension at the size limit was accepted
C4_Witness ==
    /\ WalkReturned
    /\ \E e \in Entries :
          e.path \in reached /\ e.type = "file" /\ e.size > config.max_file_size
    /\ \E e \in Entries :
          /\ e.path \in reached /\ e.type = "file"
          /\ lower(suffix(e.name)) \notin supported_extensions
          /\ e.name \notin special_file_names
    /\ \E i \in 1..Len(files) :
          /\ files[i].size = config.max_file_size
          /\ suffix(files[i].name) # files[i].extension

\* the name without its suffix
BaseName(name) == SubSeq(name, 1, Len(name) - Len(suffix(name)))

SpecialBaseNames == { <<"R", "E", "A", "D", "M", "E">>, <<"L", "I", "C", "E", "N", "S", "E">>, <<"D", "o", "c", "k", "e", "r", "f", "i", "l", "e">>, <<"M", "a", "k", "e", "f", "i", "l", "e">> }

\* the entry has a record in the result
Included(e) == \E i \in 1..Len(files) : files[i].path = e.path

\* C5 as stated: a file whose base name is README, LICENSE, Dockerfile or
\* Makefile, within max_file_size and taken up by the loop, is in the result
\* whatever its extension.
C5_SpecialBaseNames ==
    WalkReturned =>
        \A e \in Entries :
            (/\ e.path \in reached
             /\ e.type # "dir"
             /\ BaseName(e.name) \in SpecialBaseNames
             /\ e.size <= config.max_file_size) => Included(e)

\* C5 amended: a file whose whole name is README.md, LICENSE, Dockerfile or
\* Makefile, within max_file_size and taken up by the loop, is in the result
\* whether or not its extension is supported.
C5_SpecialNames ==
    WalkReturned =>
        \A e \in Entries :
            (/\ e.path \in reached
             /\ e.type # "dir"
             /\ e.name \in special_file_names
             /\ e.size <= config.max_file_size) => Included(e)

\* C5 witness: a LICENSE, whose extension is empty, is in the result
C5_Witness ==
    /\ WalkReturned
    /\ \E e \in Entries :
          /\ e.path \in reached
          /\ e.name \in special_file_names
          /\ lower(suffix(e.name)) \notin supported_extensions
          /\ Included(e)

(***************************************************************************)
(* Claims about the terminal statuses (Spec)                               *)
(***************************************************************************)
\* the requests of one kind
RequestsOf(kind) == {i \in 1..Len(requests) : requests[i].kind = kind}

\* C10: a 401 of the completion API and a 404 to the repository information
\* are not retried: the request answered so is the last one of the run; when
\* it is the first of its call it is the only one; the completion client
\* returns failure and no README results; the analysis returns no result and
\* neither a listing nor a content is requested.
C10_TerminalNotRetried ==
    /\ \A i \in RequestsOf("completion") :
          requests[i].status = 401 =>
              /\ i = Len(requests)
              /\ requests[i].attempt = 0 => RequestsOf("completion") = {i}
              /\ call.kind = "completion" => (call.returned /\ call.result = None)
              /\ readme = None
              /\ pc \in {"generate", "done"}
    /\ \A i \in RequestsOf("info") :
          requests[i].status = 404 =>
              /\ i = Len(requests)
              /\ requests[i].attempt = 0 => Len(requests) = 1
              /\ call.kind = "info" => (call.returned /\ call.result = None)
              /\ repo_data = None
              /\ WalkRequests = {}
              /\ stack = << >>
              /\ pc \in {"repo_info", "analyzed", "done"}

\* C10 witness: the first completion request was answered 401 and the run is
\* over without a README
C10_Witness ==
    /\ pc = "done"
    /\ readme = None
    /\ repo_data # None
    /\ RequestsOf("completion") = {Len(requests)}
    /\ requests[Len(requests)].status = 401

(***************************************************************************)
(* The retry loops                                                         *)
(***************************************************************************)
\* the status that tells of a rate limit: 429 from the completion API, 403
\* from the repository API
RateLimitStatus == IF call.kind = "completion" THEN 429 ELSE 403

AllRateLimited == \A i \in 1..Len(requests) : requests[i].status = RateLimitStatus

\* C11: one call of the completion client or of the repository API fetch sends
\* at most max_retries requests, numbered from 0 in order, whatever the
\* answers are; while every answer is the rate-limit status (429 from the
\* completion API, 403 from the repository API) the call goes on until it has
\* sent exactly max_retries requests, and then returns None without raising
C11_BoundedRetries ==
    /\ Len(requests) <= config.max_retries
    /\ \A i \in 1..Len(requests) : requests[i].attempt = i - 1
    /\ AllRateLimited =>
          /\ call.returned <=> Len(requests) = config.max_retries
          /\ call.returned => (call.result = None /\ call.raised = "")

\* three answers 429 to a call with max_retries = 3: three requests, then None
C11_Witness ==
    /\ call.kind = "completion"
    /\ config.max_retries = 3
    /\ Len(requests) = 3
    /\ AllRateLimited
    /\ call.returned
    /\ call.result = None

\* the outcomes of an attempt of the completion client after which another
\* attempt is due: 429, a status other than 200 and 401, a connection failure
\* (ClientError) or a request timeout (ClientError from the socket,
\* TimeoutError from the total timeout)
Retryable(status) == status \in CompletionAnswers \ {200, 401}

\* C12: in the completion client every retryable outcome of attempt k that is
\* not the last attempt is followed by exactly one wait of
\* retry_delay * 2^k and then by attempt k + 1; no wait follows the last
\* attempt and no outcome causes two waits
C12_BackoffAfterRetryable ==
    call.kind = "completion" =>
        \A i \in 1..Len(requests) :
            LET r == requests[i]
            IN  /\ Len(r.slept) <= 1
                /\ r.attempt = config.max_retries - 1 => r.slept = << >>
                /\ (Retryable(r.status) /\ r.attempt < config.max_retries - 1) =>
                      /\ r.slept = <<config.retry_delay * (2 ^ r.attempt)>>
                      /\ IF i < Len(requests)
                         THEN requests[i + 1].attempt = r.attempt + 1
                         ELSE ~call.returned /\ call.attempt = r.attempt + 1

\* the completion requests in the log
CompletionRequests == {i \in 1..Len(requests) : requests[i].kind = "completion"}

\* C20: the body of every completion request carries the configured model
\* name, the configured max_tokens, temperature 0.3 and top_p 0.9, and
\* exactly two messages, the system message and then the user message with
\* the prompt
C20_PayloadFromConfig ==
    \A i \in CompletionRequests :
        LET payload == requests[i].payload[1]
        IN  /\ payload.model = config.model_name
            /\ payload.max_tokens = config.max_tokens
            /\ payload.temperature = [num |-> 3, den |-> 10]
            /\ payload.top_p = [num |-> 9, den |-> 10]
            /\ Len(payload.messages) = 2
            /\ payload.messages[1].role = "system"
            /\ payload.messages[2].role = "user"
            /\ payload.messages[2].content = _create_analysis_prompt(repo_data[1])

(***************************************************************************)
(* Errors, cancellation and sessions                                       *)
(***************************************************************************)
\* analyze_repository has returned or raised
AnalysisOver == pc \in {"analyzed", "generate", "done"}

\* C13: whatever the APIs answer (statuses, malformed bodies, errors of the
\* transport, timeouts), no exception leaves analyze_repository or
\* generate_readme: analyze_repository returns a snapshot or None, and
\* generate_readme returns a text that is not empty or None
C13_NoFaultEscapes ==
    /\ escaped \notin ExceptionClasses
    /\ AnalysisOver /\ repo_data # None =>
          /\ repo_data[1].name = repo_info[1].name
          /\ repo_data[1].files = files
    /\ pc = "done" /\ readme # None => readme[1] # << >>

\* the repository information came without its name, the walk went through,
\* and the KeyError of the snapshot ended the analysis with None
C13_Witness ==
    /\ pc = "analyzed"
    /\ repo_info # None
    /\ "name" \notin DOMAIN repo_info[1]
    /\ \E i \in 1..Len(requests) : requests[i].kind = "content"
    /\ repo_data = None
    /\ escaped = ""

\* the analysis ran to its end: no timeout, no malformed repository
\* information or listing, no cancellation before analyze_repository returned
Undisturbed ==
    /\ \A i \in 1..Len(requests) :
          requests[i].kind \in {"info", "list", "content"} =>
              /\ requests[i].status # TimeoutError
              /\ (requests[i].status = 200 /\ requests[i].kind # "content") => requests[i].sound
    /\ ~(escaped = "CancelledError" /\ call.kind \in {"info", "list", "content"})

\* the request that ended a call of the API: the last of its path and kind
LastOfCall(i) ==
    \A j \in (i + 1)..Len(requests) :
        ~(requests[j].kind = requests[i].kind /\ requests[j].path = requests[i].path)

\* the listing asked for by request i failed: 404, or a rate limit or another
\* failure on the last attempt
ListingFailed(i) ==
    /\ requests[i].kind = "list"
    /\ LastOfCall(i)
    /\ \/ requests[i].status = 404
       \/ /\ requests[i].status \in {403, 500, ClientError}
          /\ requests[i].attempt = config.max_retries - 1

\* the listing asked for by request i came back empty
ListingEmpty(i) ==
    /\ requests[i].kind = "list"
    /\ requests[i].status = 200
    /\ Repositories[repository][requests[i].path] = << >>

\* the paths of the files whose content was asked for, in the order of the calls
RECURSIVE ContentPaths(_)
ContentPaths(n) ==
    IF n = 0 THEN << >>
    ELSE IF requests[n].kind = "content" /\ requests[n].attempt = 0
         THEN Append(ContentPaths(n - 1), requests[n].path)
         ELSE ContentPaths(n - 1)

InDirectory(path, dir) == dir = << >> \/ startswith(path, dir \o <<"/">>)

\* C14: a directory listing that fails (404, rate limit or retries
\* exhausted) or is empty gives no record and does not end the walk: the
\* analysis returns a snapshot whose files are, in order, the files whose
\* content was asked for before and after it, none of them from that directory
C14_FailedListingIsEmptySubtree ==
    (AnalysisOver /\ Undisturbed /\ repo_info # None) =>
        /\ repo_data # None
        /\ [i \in 1..Len(files) |-> files[i].path] = ContentPaths(Len(requests))
        /\ \A i \in 1..Len(requests) :
              (ListingFailed(i) \/ ListingEmpty(i)) =>
                  \A k \in 1..Len(files) : ~InDirectory(files[k].path, requests[i].path)

\* the listing of a subdirectory failed between two accepted files, and both
\* are in the snapshot
C14_Witness ==
    /\ pc = "analyzed"
    /\ repo_data # None
    /\ \E i \in 1..Len(requests) :
          /\ ListingFailed(i)
          /\ requests[i].path # << >>
          /\ \E j \in 1..(i - 1) : requests[j].kind = "content"
          /\ \E j \in (i + 1)..Len(requests) : requests[j].kind = "content"
    /\ Len(repo_data[1].files) = 2

\* the content asked for by request i did not come: the call failed (404,
\* rate limit or retries exhausted), or the body was no base64 or no UTF-8
ContentMissing(i) ==
    /\ requests[i].kind = "content"
    /\ LastOfCall(i)
    /\ \/ requests[i].status = 404
       \/ /\ requests[i].status \in {403, 500, ClientError}
          /\ requests[i].attempt = config.max_retries - 1
       \/ requests[i].status = 200 /\ ~requests[i].sound

\* the record the walker makes of the entry at a path, with this content
RecordOf(path, content) ==
    LET item == RepositoryPaths[repository][path]
    IN  FileData(item.path, item.name, lower(suffix(item.name)), item.size, content)

SessionOwner ==
    CASE pc \in {"repo_info", "walk"} -> {"analyzer"}
      [] pc = "generate" -> {"generator"}
      [] OTHER -> {}

\* C19: a session is open only while the function that opened it runs:
\* analyze_repository and generate_readme close theirs on every way out
\* (result, None after a failure, exception, cancellation); a cancelled run
\* is over, has no text, has no snapshot if it was cancelled in the analysis,
\* and sends no further request
C19_SessionsClosed ==
    /\ [](/\ session = SessionOwner
          /\ escaped = "CancelledError" =>
                /\ pc = "done"
                /\ readme = None
                /\ call.kind \in {"info", "list", "content"} => repo_data = None)
    /\ [][pc = "done" => requests' = requests]_vars

\* cancelled in the walk, after a file was taken up: the session is closed
C19_Witness ==
    /\ escaped = "CancelledError"
    /\ call.kind = "content"
    /\ Len(requests) >= 3
    /\ session = {}

(***************************************************************************)
(* The post-processing                                                     *)
(***************************************************************************)
\* the function has run on call.result and readme holds what it made of it
Processed == pc \in {"post_once", "post_twice"}

\* C16: after the post-processing the text has no run of three or more
\* newlines: every longer run, of 3, 4, 5 or more, is brought down to two
C16_NoTripleNewline ==
    Processed => ~str_in(<<"\n", "\n", "\n">>, readme[1])

\* how many lines of the text are top-level headings
HeadingCount(text) ==
    LET lines == split_lines(text)
    IN  Cardinality({i \in 1..Len(lines) : startswith(lines[i], <<"#", " ">>)})

\* C17: the post-processing puts no second top-level heading into a text: a
\* text with a line that starts with "# ", at its start or further down, keeps
\* the headings it has, and a text without one gets exactly one
C17_NoDuplicateHeading ==
    pc = "post_once" =>
        HeadingCount(readme[1]) =
            IF HeadingCount(call.result[1]) = 0 THEN 1 ELSE HeadingCount(call.result[1])

\* how many lines of the text are the badge line of the snapshot
BadgeLines(text) ==
    LET lines == split_lines(text)
    IN  Cardinality({i \in 1..Len(lines) : lines[i] = _generate_badges(repo_data[1])})

\* C18: with badges enabled, the post-processing of its own result puts in no
\* second badge line, also when the heading is so long that the badge line
\* starts after the first 500 characters
C18_BadgesOnce ==
    (pc = "post_twice" /\ config.include_badges) =>
        BadgeLines(readme[1]) = BadgeLines(call.result[1])

(***************************************************************************)
(* The URL helpers                                                         *)
(***************************************************************************)
\* a segment of a URL path: not empty, without "/", "?", "#" and blanks
IsSegment(s) == s # << >> /\ \A i \in 1..Len(s) : s[i] \notin {"/", "?", "#", " "}

\* the URL has the shape https://github.com/{owner}/{repo} with an optional
\* slash at its end
ExactShape(url) ==
    /\ startswith(url, <<"h", "t", "t", "p", "s", ":", "/", "/", "g", "i", "t", "h", "u", "b", ".", "c", "o", "m", "/">>)
    /\ LET parts == str_split(SubSeq(url, Len(<<"h", "t", "t", "p", "s", ":", "/", "/", "g", "i", "t", "h", "u", "b", ".", "c", "o", "m", "/">>) + 1, Len(url)), "/")
       IN  /\ Len(parts) \in {2, 3}
           /\ Len(parts) = 3 => parts[3] = << >>
           /\ IsSegment(parts[1])
           /\ IsSegment(parts[2])

\* C21: extract_repo_info returns a match for the URLs of the shape
\* https://github.com/{owner}/{repo} with an optional slash at the end, and
\* no match for every other URL
C21_ExactShapeOnly ==
    pc = "url_extracted" => (owner_repo # None <=> ExactShape(repo_url))

\* the schemes after which a host follows
HostSchemes == {scheme \in UrlSchemes : str_in(<<"/", "/">>, scheme)}

\* what is expected for the paths after the host github.com
ExpectedOwnerRepo ==
    [path \in UrlPaths |->
        CASE path \in { <<"/", "o", "/", "r">>, <<"/", "o", "/", "r", "/">>, <<"/", "o", "/", "r", "/", "/">>, <<"/", "o", "/", "r", "/", "t", "r", "e", "e", "/", "m", "a", "i", "n">>, <<"/", "/", "o", "/", "r">>,
                        <<"/", "o", "/", "r", "?", "t", "a", "b", "=", "a">>, <<"/", "o", "/", "r", "#", "x">> } -> Some(<< <<"o">>, <<"r">> >>)
          [] path = <<"/", "o", "/", "r", ".", "g", "i", "t">> -> Some(<< <<"o">>, <<"r", ".", "g", "i", "t">> >>)
          [] path = <<"/", "o", "/", "/", "r">> -> Some(<< <<"o">>, << >> >>)
          [] OTHER -> None]

\* C21, amended: extract_repo_info looks at the host and the path only. For a
\* URL whose host, after "//", is exactly github.com it returns the first two
\* segments of the path, whatever the scheme is (https, http, ftp, none) and
\* whatever follows the second segment (further segments, a query, a
\* fragment), white space around and slashes at the end left aside; it
\* returns no match when the host is another (another name, www., a port,
\* capital letters, none) and when the path has fewer than two segments.
\* Every URL of the shape https://github.com/{owner}/{repo}(/) has its match,
\* and so has every URL that validate_github_url accepts.
C21_HostAndTwoSegments ==
    pc = "url_extracted" =>
        /\ \A scheme \in UrlSchemes, host \in UrlHosts, path \in UrlPaths, pad \in UrlPads :
              repo_url = pad \o scheme \o host \o path \o pad =>
                  owner_repo = IF host = <<"g", "i", "t", "h", "u", "b", ".", "c", "o", "m">> /\ scheme \in HostSchemes
                               THEN ExpectedOwnerRepo[path]
                               ELSE None
        /\ ExactShape(repo_url) => owner_repo # None
        /\ url_valid = Some(TRUE) => owner_repo # None

\* an http URL with further segments has a match
C21_Witness ==
    /\ pc = "url_extracted"
    /\ repo_url = <<"h", "t", "t", "p", ":", "/", "/", "g", "i", "t", "h", "u", "b", ".", "c", "o", "m", "/", "o", "/", "r", "/", "t", "r", "e", "e", "/", "m", "a", "i", "n">>
    /\ owner_repo = Some(<< <<"o">>, <<"r">> >>)


(***************************************************************************)
(* The main-entry-point excerpt of the code-sample section                 *)
(***************************************************************************)
\* the files of the snapshot with content that bear a name of main_files
named_with_content(fs, name) ==
    SelectSeq(fs, LAMBDA f : lower(f.name) = lower(name) /\ f.content # << >>)

\* the excerpt as stated: of the first name of main_files that a file with
\* content bears, the first 500 characters of that file, labelled by its
\* extension; nothing of the later names
RECURSIVE stated_main_samples(_, _)
stated_main_samples(fs, i) ==
    IF i > Len(main_files) THEN << >>
    ELSE LET named == named_with_content(fs, main_files[i])
         IN  IF named # << >>
             THEN << fenced(main_files[i],
                            _get_language_for_extension(named[1].extension),
                            str_prefix(named[1].content, excerpt_chars) \o <<".", ".", ".">>) >>
             ELSE stated_main_samples(fs, i + 1)

\* C22: the code-sample section holds at most one main-entry-point excerpt,
\* in front of the configuration excerpts: the first 500 characters of the
\* file of the first name of the priority list for which a file with content
\* exists in the snapshot, in a fenced block labelled by the file's
\* extension, and no excerpt of a later name.
C22_FirstNameWithContent ==
    pc = "sampled" =>
        code_samples = Some(joined_samples(stated_main_samples(files, 1)
                                           \o config_samples(files)))

\* the section when no two files of the snapshot bear the same name
C22_UniqueNames ==
    (pc = "sampled" /\ \A i, j \in 1..Len(files) :
                          lower(files[i].name) = lower(files[j].name) => i = j)
        => code_samples = Some(joined_samples(stated_main_samples(files, 1)
                                              \o config_samples(files)))

(***************************************************************************)
(* A completion without text                                               *)
(***************************************************************************)
\* the completion requests answered 200 with a message content that is empty
\* or white space only
BlankAnswers ==
    {i \in RequestsOf("completion") :
        /\ requests[i].status = 200
        /\ requests[i].content # None
        /\ strip(requests[i].content[1]) = << >>}

\* C23: a 200 of the completion API whose message content is empty or white
\* space only is not a success: the request is not repeated (no wait and no
\* request follows it; when it is the first of its call it is the only one),
\* the client returns the trimmed, empty text, generate_readme returns no
\* result and the post-processor does not run, so that no README is empty or
\* made of the heading and the badges alone.
C23_BlankCompletionIsNoResult ==
    /\ \A i \in BlankAnswers :
          /\ i = Len(requests)
          /\ requests[i].slept = << >>
          /\ requests[i].attempt = 0 => RequestsOf("completion") = {i}
          /\ call.kind = "completion" =>
                 (call.returned /\ call.raised = "" /\ call.result = Some(<< >>))
          /\ readme = None
          /\ pc \in {"generate", "done"}
    /\ readme # None =>
          /\ strip(readme[1]) # << >>
          /\ readme[1] # _post_process_readme(<< >>, repo_data[1], config.include_badges)

\* C23 witness: the only completion request was answered 200 with white
\* space, generate_readme has returned and there is no README
C23_Witness ==
    /\ pc = "done"
    /\ escaped = ""
    /\ BlankAnswers = {Len(requests)}
    /\ RequestsOf("completion") = {Len(requests)}
    /\ requests[Len(requests)].content = Some(<<" ", "\n">>)
    /\ call = no_call
    /\ readme = None
====
